---------------------------- MODULE Spec2Model ----------------------------
(***************************************************************************)
(* RTFM (Real Time For the Masses) for ARM Cortex-M.                       *)
(*                                                                         *)
(* The module has two layers.                                              *)
(*  1. The compile-time analysis of macros/src/analyze.rs, as operators    *)
(*     over an application description (a record).                         *)
(*  2. The run-time behaviour of the program that macros/src/codegen.rs    *)
(*     emits for that application, on a Cortex-M core: an NVIC with        *)
(*     pending bits, BASEPRI and PRIMASK, a single stack of preempted      *)
(*     contexts, Mutex::lock of src/lib.rs, the free and ready queues,     *)
(*     the timer queue and the SysTick handler.                            *)
(***************************************************************************)
EXTENDS Integers, Sequences, FiniteSets, TLC

(***************************************************************************)
(* Bounds of the model.                                                    *)
(***************************************************************************)
\* how many times the hardware interrupt sources may fire, all together
MaxArrivals == 1
\* the cycle counter stops advancing at this value
MaxTime == 1

(***************************************************************************)
(* Generic helpers.                                                        *)
(***************************************************************************)
Max(a, b) == IF a >= b THEN a ELSE b

Min(a, b) == IF a <= b THEN a ELSE b

RECURSIVE SetMax(_, _)
SetMax(S, default) ==
  IF S = {} THEN default
  ELSE LET x == CHOOSE y \in S : TRUE
       IN Max(x, SetMax(S \ {x}, default))

RECURSIVE SetSum(_, _)
\* sum of f[x] over x in S
SetSum(S, f) ==
  IF S = {} THEN 0
  ELSE LET x == CHOOSE y \in S : TRUE
       IN f[x] + SetSum(S \ {x}, f)

RECURSIVE SetToSeq(_)
SetToSeq(S) ==
  IF S = {} THEN << >>
  ELSE LET x == CHOOSE y \in S : TRUE
       IN <<x>> \o SetToSeq(S \ {x})

SeqToSet(s) == {s[i] : i \in 1..Len(s)}

\* u8 arithmetic
U8(x) == x % 256

(***************************************************************************)
(* The application description (the parser's output, syntax::App).         *)
(*   tasks       name -> [priority, capacity (0: not declared), resources, *)
(*                        spawn, schedule]                                 *)
(*   interrupts  name -> [priority, resources, spawn, schedule]            *)
(*   idle        [present, resources, spawn, schedule]                     *)
(*   init        [resources, spawn, schedule]                              *)
(*   resources   name -> [mutable, ty]                                     *)
(*   free_interrupts   the extern block, in declaration order              *)
(*   prog        context name -> the statements of its body                *)
(* A statement is [op, a, b, c]:                                           *)
(*   lock a .. unlock   resources.a.lock(|..| ..) (or the plain access to  *)
(*                      a when the context needs no lock)                  *)
(*   spawn a(b)         spawn.a(b)                                         *)
(*   schedule a(c) at now + b                                              *)
(*   print a b          println                                            *)
(*   pend a             rtfm::pend(Interrupt::a)                           *)
(***************************************************************************)
St(op, a, b, c) == [op |-> op, a |-> a, b |-> b, c |-> c]

StLock(r) == St("lock", r, 0, 0)

StUnlock == St("unlock", "", 0, 0)

StSpawn(t, x) == St("spawn", t, x, 0)
\* if input > 0 { spawn.t(input - 1) }
StSpawnLess(t) == St("spawn_less", t, 0, 0)

StSchedule(t, d, x) == St("schedule", t, d, x)

StPrint(m, x) == St("print", m, x, 0)

StPend(i) == St("pend", i, 0, 0)

TaskDecl(p, cap, res, sp, sc) ==
  [priority |-> p, capacity |-> cap, resources |-> res, spawn |-> sp, schedule |-> sc]

IntDecl(p, res, sp, sc) ==
  [priority |-> p, resources |-> res, spawn |-> sp, schedule |-> sc]

NoNames == {}

(***************************************************************************)
(* Analysis (macros/src/analyze.rs).                                       *)
(***************************************************************************)
\* the priority of a call made from init
None == 0 - 1

Owned(p) == [kind |-> "Owned", p |-> p]

Shared(c) == [kind |-> "Shared", p |-> c]

\* Ownership::needs_lock
needs_lock(ownership, priority) ==
  IF ownership.kind = "Owned" THEN FALSE ELSE priority < ownership.p

\* variant: the ceiling of a shared resource is the priority of the last access
OwnershipStepLast(ownerships, priority, res) ==
  IF res \in DOMAIN ownerships
  THEN IF priority # ownerships[res].p
       THEN [ownerships EXCEPT ![res] = Shared(priority)]
       ELSE ownerships
  ELSE [r \in DOMAIN ownerships \cup {res} |->
          IF r = res THEN Owned(priority) ELSE ownerships[r]]

\* one iteration of the ownership loop: access of resource res at priority
OwnershipStep(ownerships, priority, res) ==
  IF res \in DOMAIN ownerships
  THEN IF priority # ownerships[res].p
       THEN [ownerships EXCEPT ![res] = Shared(Max(ownerships[res].p, priority))]
       ELSE ownerships
  ELSE [r \in DOMAIN ownerships \cup {res} |->
          IF r = res THEN Owned(priority) ELSE ownerships[r]]

RECURSIVE OwnershipsOf(_, _)
\* the ownership loop over a sequence of <<priority, resource>> accesses
OwnershipsOf(accesses, ownerships) ==
  IF accesses = << >> THEN ownerships
  ELSE OwnershipsOf(Tail(accesses),
                    OwnershipStep(ownerships, Head(accesses)[1], Head(accesses)[2]))

EmptyMap == [x \in {} |-> 0]

\* App::resource_accesses: idle, then interrupts, then tasks; init is not enumerated
resource_access_set(a) ==
  (IF a.idle.present THEN {<<0, r>> : r \in a.idle.resources} ELSE {})
  \cup UNION {{<<a.interrupts[i].priority, r>> : r \in a.interrupts[i].resources} :
                i \in DOMAIN a.interrupts}
  \cup UNION {{<<a.tasks[t].priority, r>> : r \in a.tasks[t].resources} :
                t \in DOMAIN a.tasks}

resource_accesses(a) == SetToSeq(resource_access_set(a))

Ownerships(a) == OwnershipsOf(resource_accesses(a), EmptyMap)

\* App::spawn_calls as <<caller, priority or None, task>>
spawn_calls(a) ==
  {<<"init", None, t>> : t \in a.init.spawn}
  \cup (IF a.idle.present THEN {<<"idle", 0, t>> : t \in a.idle.spawn} ELSE {})
  \cup UNION {{<<i, a.interrupts[i].priority, t>> : t \in a.interrupts[i].spawn} :
                i \in DOMAIN a.interrupts}
  \cup UNION {{<<s, a.tasks[s].priority, t>> : t \in a.tasks[s].spawn} :
                s \in DOMAIN a.tasks}

\* App::schedule_calls as <<caller, priority or None, task>>
schedule_calls(a) ==
  {<<"init", None, t>> : t \in a.init.schedule}
  \cup (IF a.idle.present THEN {<<"idle", 0, t>> : t \in a.idle.schedule} ELSE {})
  \cup UNION {{<<i, a.interrupts[i].priority, t>> : t \in a.interrupts[i].schedule} :
                i \in DOMAIN a.interrupts}
  \cup UNION {{<<s, a.tasks[s].priority, t>> : t \in a.tasks[s].schedule} :
                s \in DOMAIN a.tasks}

\* variant: the capacity declared in #[task] does not override the computed one
CapacitiesComputed(a) ==
  [t \in DOMAIN a.tasks |->
     Cardinality({c \in spawn_calls(a) : c[3] = t})
     + Cardinality({c \in schedule_calls(a) : c[3] = t})]

\* capacities: one message per spawn / schedule reference, overridden by #[task(capacity)]
Capacities(a) ==
  [t \in DOMAIN a.tasks |->
     IF a.tasks[t].capacity # 0 THEN a.tasks[t].capacity
     ELSE Cardinality({c \in spawn_calls(a) : c[3] = t})
          + Cardinality({c \in schedule_calls(a) : c[3] = t})]

\* the priority levels that have a dispatcher
Levels(a) == {a.tasks[t].priority : t \in DOMAIN a.tasks}

\* position of a level among the levels in ascending order: 1 for the lowest
LevelRank(a, level) == Cardinality({l \in Levels(a) : l <= level})

\* dispatchers: tasks sorted by priority, the next free interrupt for each new level
Dispatchers(a) ==
  [level \in Levels(a) |->
     [interrupt |-> a.free_interrupts[LevelRank(a, level)],
      tasks |-> {t \in DOMAIN a.tasks : a.tasks[t].priority = level},
      capacity |-> U8(SetSum({t \in DOMAIN a.tasks : a.tasks[t].priority = level},
                             Capacities(a)))]]

\* variant: the second pass, over the schedule calls, is left out
free_queuesSpawnOnly(a) ==
  [t \in DOMAIN a.tasks |->
     SetMax({c[2] : c \in {d \in spawn_calls(a) : d[3] = t /\ d[2] # None}}, 0)]

\* ceilings of the free queues: first pass over spawn calls, second over schedule calls
free_queues(a) ==
  [t \in DOMAIN a.tasks |->
     SetMax({c[2] : c \in {d \in spawn_calls(a) \cup schedule_calls(a) :
                             d[3] = t /\ d[2] # None}}, 0)]

\* ceilings of the ready queues: spawn calls only
ready_queues(a) ==
  [level \in Levels(a) |->
     SetMax({c[2] : c \in {d \in spawn_calls(a) :
                             a.tasks[d[3]].priority = level /\ d[2] # None}}, 0)]

\* the tasks of the timer queue
tq_tasks(a) == {c[3] : c \in schedule_calls(a)}

\* the sums the analysis accumulates in a u8: the capacities of the tasks of
\* each level, and the capacities of the scheduled tasks once per schedule call
CapacitySums(a) ==
  {SetSum({t \in DOMAIN a.tasks : a.tasks[t].priority = level}, Capacities(a)) :
     level \in Levels(a)}
  \cup {SetSum({<<c[1], c[3]>> : c \in schedule_calls(a)},
                [k \in {<<c[1], c[3]>> : c \in schedule_calls(a)} |->
                   Capacities(a)[k[2]]])}

\* a += of the analysis leaves the range of u8: the macro panics when it is
\* built with overflow checks and the sum wraps when it is built without
AddOverflows(a) == \E s \in CapacitySums(a) : s > 255

\* capacity of the timer queue: summed once per schedule call, in a u8
tq_capacity(a) ==
  U8(SetSum({<<c[1], c[3]>> : c \in schedule_calls(a)},
            [k \in {<<c[1], c[3]>> : c \in schedule_calls(a)} |-> Capacities(a)[k[2]]]))

\* priority of the timer queue handler
tq_priority(a) == SetMax({a.tasks[t].priority : t \in tq_tasks(a)}, 1)

\* variant: the callers of schedule do not raise the ceiling
tq_ceilingPriority(a) == tq_priority(a)

\* ceiling of the timer queue
tq_ceiling(a) ==
  SetMax({c[2] : c \in {d \in schedule_calls(a) : d[2] # None}}, tq_priority(a))


\* App::resource_accesses, one access per context and resource:
\* <<context, priority, resource>>; init is not enumerated
access_sites(a) ==
  (IF a.idle.present THEN {<<"idle", 0, r>> : r \in a.idle.resources} ELSE {})
  \cup UNION {{<<i, a.interrupts[i].priority, r>> : r \in a.interrupts[i].resources} :
                i \in DOMAIN a.interrupts}
  \cup UNION {{<<t, a.tasks[t].priority, r>> : r \in a.tasks[t].resources} :
                t \in DOMAIN a.tasks}

RECURSIVE Orderings(_)
\* the orders in which the elements of S can be iterated
Orderings(S) ==
  IF S = {} THEN {<< >>}
  ELSE UNION {{<<x>> \o f : f \in Orderings(S \ {x})} : x \in S}

\* the <<priority, resource>> pairs of a sequence of access sites
AccessSeq(sites) == [i \in 1..Len(sites) |-> <<sites[i][2], sites[i][3]>>]

\* variant: Sync is required only by an access that raises the ceiling
NeedsSyncStepRaise(ownerships, priority, res, a) ==
  IF /\ res \in DOMAIN ownerships
     /\ priority > ownerships[res].p
     /\ ~a.resources[res].mutable
  THEN {a.resources[res].ty} ELSE {}

\* variant: every access after the first requires Sync
NeedsSyncStepAny(ownerships, priority, res, a) ==
  IF /\ res \in DOMAIN ownerships
     /\ ~a.resources[res].mutable
  THEN {a.resources[res].ty} ELSE {}

\* the types one iteration of the ownership loop inserts into needs_sync: the
\* type of a read-only resource whose ownership the access promotes
NeedsSyncStep(ownerships, priority, res, a) ==
  IF /\ res \in DOMAIN ownerships
     /\ priority # ownerships[res].p
     /\ ~a.resources[res].mutable
  THEN {a.resources[res].ty} ELSE {}

RECURSIVE NeedsSyncOf(_, _, _)
\* the needs_sync set built by the ownership loop over a sequence of accesses
NeedsSyncOf(accesses, ownerships, a) ==
  IF accesses = << >> THEN {}
  ELSE LET priority == Head(accesses)[1]
           res == Head(accesses)[2]
       IN NeedsSyncStep(ownerships, priority, res, a)
          \cup NeedsSyncOf(Tail(accesses), OwnershipStep(ownerships, priority, res), a)

\* variant: every spawn requires Send
needs_sendAlways(a) ==
  a.init.spawn \cup a.init.schedule
  \cup {c[3] : c \in {d \in spawn_calls(a) : d[2] # None}}

\* needs_send: messages sent from init, and spawns from another priority
needs_send(a) ==
  a.init.spawn \cup a.init.schedule
  \cup {c[3] : c \in {d \in spawn_calls(a) :
                        d[2] # None /\ a.tasks[d[3]].priority # d[2]}}

\* the orders of the tasks after tasks.sort_by(priority)
SortedTasks(a) ==
  {f \in Orderings(DOMAIN a.tasks) :
     \A i, j \in 1..Len(f) : i < j => a.tasks[f[i]].priority <= a.tasks[f[j]].priority}

\* the free-interrupt iterator is exhausted: expect("BUG: not enough free_interrupts")
NoInterrupt == "BUG: not enough free_interrupts"

\* variant: the iterator of the free interrupts does not advance
DispatcherStepSame(a, st, name) ==
  LET level == a.tasks[name].priority
      d == st.dispatchers
  IN IF level \in DOMAIN d
     THEN [st EXCEPT !.dispatchers[level].capacity = U8(@ + Capacities(a)[name]),
                     !.dispatchers[level].tasks = Append(@, name)]
     ELSE [dispatchers |->
             [l \in DOMAIN d \cup {level} |->
                IF l = level
                THEN [interrupt |-> IF 1 <= Len(a.free_interrupts)
                                    THEN a.free_interrupts[1] ELSE NoInterrupt,
                      tasks |-> <<name>>,
                      capacity |-> Capacities(a)[name]]
                ELSE d[l]],
           next |-> st.next]

\* one iteration of the dispatcher loop: entry(priority).or_insert_with(next free
\* interrupt), then the capacity and the task are added
DispatcherStep(a, st, name) ==
  LET level == a.tasks[name].priority
      d == st.dispatchers
  IN IF level \in DOMAIN d
     THEN [st EXCEPT !.dispatchers[level].capacity = U8(@ + Capacities(a)[name]),
                     !.dispatchers[level].tasks = Append(@, name)]
     ELSE [dispatchers |->
             [l \in DOMAIN d \cup {level} |->
                IF l = level
                THEN [interrupt |-> IF st.next <= Len(a.free_interrupts)
                                    THEN a.free_interrupts[st.next] ELSE NoInterrupt,
                      tasks |-> <<name>>,
                      capacity |-> Capacities(a)[name]]
                ELSE d[l]],
           next |-> st.next + 1]

RECURSIVE DispatchersOf(_, _, _)
\* the dispatcher loop over the sorted tasks
DispatchersOf(a, tasks, st) ==
  IF tasks = << >> THEN st.dispatchers
  ELSE DispatchersOf(a, Tail(tasks), DispatcherStep(a, st, Head(tasks)))

\* the result of the analysis (struct Analysis) when the accesses and the
\* tasks are iterated in the given orders
AnalysisWith(a, accesses, tasks) ==
  [capacities |-> Capacities(a),
   dispatchers |-> DispatchersOf(a, tasks, [dispatchers |-> EmptyMap, next |-> 1]),
   free_queues |-> free_queues(a),
   needs_send |-> needs_send(a),
   needs_sync |-> NeedsSyncOf(accesses, EmptyMap, a),
   ownerships |-> OwnershipsOf(accesses, EmptyMap),
   ready_queues |-> ready_queues(a),
   timer_queue |-> [capacity |-> tq_capacity(a), ceiling |-> tq_ceiling(a),
                    priority |-> tq_priority(a), tasks |-> tq_tasks(a)]]

\* the result of the analysis (struct Analysis)
Analysis(a) ==
  AnalysisWith(a, resource_accesses(a), CHOOSE f \in SortedTasks(a) : TRUE)

(***************************************************************************)
(* The applications the run-time model is explored on.                     *)
(***************************************************************************)
NoIdle == [present |-> FALSE, resources |-> NoNames, spawn |-> NoNames, schedule |-> NoNames]

\* Two tasks at priorities 1 and 3 share the mutable resource R; the task at
\* priority 1 also shares S with an interrupt at the highest priority.
AppLock ==
  [name |-> "lock",
   armv7m |-> TRUE,
   resources |-> [r \in {"R", "S"} |-> [mutable |-> TRUE, ty |-> "u32"]],
   tasks |-> [t \in {"t1", "t3"} |->
                IF t = "t1" THEN TaskDecl(1, 0, {"R", "S"}, NoNames, NoNames)
                ELSE TaskDecl(3, 0, {"R"}, NoNames, NoNames)],
   interrupts |-> [i \in {"IA", "IH"} |->
                     IF i = "IA" THEN IntDecl(2, NoNames, {"t1", "t3"}, NoNames)
                     ELSE IntDecl(8, {"S"}, NoNames, NoNames)],
   idle |-> [present |-> TRUE, resources |-> NoNames, spawn |-> {"t1"}, schedule |-> NoNames],
   init |-> [resources |-> NoNames, spawn |-> NoNames, schedule |-> NoNames],
   free_interrupts |-> <<"D1", "D2">>,
   prog |-> [c \in {"init", "idle", "IA", "IH", "t1", "t3"} |->
               CASE c = "init" -> << >>
                 [] c = "idle" -> <<StSpawn("t1", 1)>>
                 [] c = "IA" -> <<StSpawn("t3", 3), StSpawn("t1", 2)>>
                 [] c = "IH" -> <<StLock("S"), StUnlock>>
                 [] c = "t1" -> <<StLock("R"), StLock("S"), StUnlock, StUnlock>>
                 [] OTHER -> <<StLock("R"), StUnlock>>]]

\* the same application built for a core without BASEPRI
AppLockV6 == [AppLock EXCEPT !.name = "lockv6", !.armv7m = FALSE]

\* Tasks A and C are scheduled, so the timer queue handler runs at priority 2;
\* task B, at priority 1 like A, is spawned by an interrupt of priority 1.
AppSched ==
  [name |-> "sched",
   armv7m |-> TRUE,
   resources |-> [r \in {} |-> [mutable |-> TRUE, ty |-> "u32"]],
   tasks |-> [t \in {"A", "B", "C"} |->
                IF t = "C" THEN TaskDecl(2, 0, NoNames, NoNames, NoNames)
                ELSE TaskDecl(1, 0, NoNames, NoNames, NoNames)],
   interrupts |-> [i \in {"IP"} |-> IntDecl(1, NoNames, {"B"}, NoNames)],
   idle |-> [present |-> TRUE, resources |-> NoNames, spawn |-> NoNames,
             schedule |-> {"A", "C"}],
   init |-> [resources |-> NoNames, spawn |-> NoNames, schedule |-> NoNames],
   free_interrupts |-> <<"D1", "D2">>,
   prog |-> [c \in {"init", "idle", "IP", "A", "B", "C"} |->
               CASE c = "idle" -> <<StSchedule("A", 1, 7), StSchedule("A", 1, 8)>>
                 [] c = "IP" -> <<StSpawn("B", 1), StSpawn("B", 2)>>
                 [] OTHER -> << >>]]

\* examples/capacity.rs; a print of the value 0 - 1 prints the task's input
AppCapacity ==
  [name |-> "capacity",
   armv7m |-> TRUE,
   resources |-> [r \in {} |-> [mutable |-> TRUE, ty |-> "u32"]],
   tasks |-> [t \in {"foo", "bar"} |->
                IF t = "foo" THEN TaskDecl(1, 4, NoNames, NoNames, NoNames)
                ELSE TaskDecl(2, 0, NoNames, NoNames, NoNames)],
   interrupts |-> [i \in {"UART0"} |-> IntDecl(2, NoNames, {"foo", "bar"}, NoNames)],
   idle |-> [present |-> TRUE, resources |-> NoNames, spawn |-> NoNames, schedule |-> NoNames],
   init |-> [resources |-> NoNames, spawn |-> {"foo"}, schedule |-> NoNames],
   free_interrupts |-> <<"UART1", "UART2">>,
   prog |-> [c \in {"init", "idle", "UART0", "foo", "bar"} |->
               CASE c = "init" -> <<StPrint("init", 0), StPend("UART0")>>
                 [] c = "idle" -> <<StPrint("idle", 0)>>
                 [] c = "UART0" -> <<StPrint("enter UART0", 0), StSpawn("foo", 0),
                                     StSpawn("foo", 1), StSpawn("foo", 2),
                                     StSpawn("foo", 3), StSpawn("bar", 0),
                                     StPrint("exit UART0", 0)>>
                 [] c = "foo" -> <<StPrint("foo", 0 - 1)>>
                 [] OTHER -> <<StPrint("bar", 0)>>]]

\* examples/ramfunc.rs: init spawns bar (priority 2), bar spawns foo (priority 1)
AppRamfunc ==
  [name |-> "ramfunc",
   armv7m |-> TRUE,
   resources |-> [r \in {} |-> [mutable |-> TRUE, ty |-> "u32"]],
   tasks |-> [t \in {"foo", "bar"} |->
                IF t = "foo" THEN TaskDecl(1, 0, NoNames, NoNames, NoNames)
                ELSE TaskDecl(2, 0, NoNames, {"foo"}, NoNames)],
   interrupts |-> [i \in {} |-> IntDecl(1, NoNames, NoNames, NoNames)],
   idle |-> NoIdle,
   init |-> [resources |-> NoNames, spawn |-> {"bar"}, schedule |-> NoNames],
   free_interrupts |-> <<"UART0", "UART1">>,
   prog |-> [c \in {"init", "idle", "foo", "bar"} |->
               CASE c = "init" -> <<StSpawn("bar", 0)>>
                 [] c = "bar" -> <<StSpawn("foo", 0)>>
                 [] c = "foo" -> <<StPrint("foo", 0)>>
                 [] OTHER -> << >>]]

\* an interrupt handler at priority 9, on a device with 3 priority bits
AppPriority9 ==
  [name |-> "priority9",
   armv7m |-> TRUE,
   resources |-> [r \in {} |-> [mutable |-> TRUE, ty |-> "u32"]],
   tasks |-> [t \in {} |-> TaskDecl(1, 0, NoNames, NoNames, NoNames)],
   interrupts |-> [i \in {"IA", "IH"} |->
                     IF i = "IA" THEN IntDecl(2, NoNames, NoNames, NoNames)
                     ELSE IntDecl(9, NoNames, NoNames, NoNames)],
   idle |-> NoIdle,
   init |-> [resources |-> NoNames, spawn |-> NoNames, schedule |-> NoNames],
   free_interrupts |-> << >>,
   prog |-> [c \in {"init", "idle", "IA", "IH"} |->
               CASE c = "init" -> <<StPrint("init", 0)>>
                 [] OTHER -> << >>]]

\* a periodic task: init schedules foo, and every invocation of foo prints
\* Instant::now() (a print of the value 0 - 2) and schedules foo one period
\* later; bar, started by init with input 1, spawns itself with input 0, which
\* ends the chain; both have capacity 1
AppPeriodic ==
  [name |-> "periodic",
   armv7m |-> TRUE,
   resources |-> [r \in {} |-> [mutable |-> TRUE, ty |-> "u32"]],
   tasks |-> [t \in {"foo", "bar"} |->
                IF t = "foo" THEN TaskDecl(2, 1, NoNames, NoNames, {"foo"})
                ELSE TaskDecl(1, 1, NoNames, {"bar"}, NoNames)],
   interrupts |-> [i \in {} |-> IntDecl(1, NoNames, NoNames, NoNames)],
   idle |-> NoIdle,
   init |-> [resources |-> NoNames, spawn |-> {"bar"}, schedule |-> {"foo"}],
   free_interrupts |-> <<"UART0", "UART1">>,
   prog |-> [c \in {"init", "idle", "foo", "bar"} |->
               CASE c = "init" -> <<StSchedule("foo", 0, 0), StSpawn("bar", 1)>>
                 [] c = "foo" -> <<StPrint("foo", 0 - 2), StSchedule("foo", 1, 0)>>
                 [] c = "bar" -> <<StSpawnLess("bar")>>
                 [] OTHER -> << >>]]

\* idle locks R (ceiling 2, shared with the interrupt I2) and, in the closure,
\* S (ceiling 3, shared with the interrupt I3)
AppNested ==
  [name |-> "nested",
   armv7m |-> TRUE,
   resources |-> [r \in {"R", "S"} |-> [mutable |-> TRUE, ty |-> "u32"]],
   tasks |-> [t \in {} |-> TaskDecl(1, 0, NoNames, NoNames, NoNames)],
   interrupts |-> [i \in {"I2", "I3"} |->
                     IF i = "I2" THEN IntDecl(2, {"R"}, NoNames, NoNames)
                     ELSE IntDecl(3, {"S"}, NoNames, NoNames)],
   idle |-> [present |-> TRUE, resources |-> {"R", "S"}, spawn |-> NoNames,
             schedule |-> NoNames],
   init |-> [resources |-> NoNames, spawn |-> NoNames, schedule |-> NoNames],
   free_interrupts |-> << >>,
   prog |-> [c \in {"init", "idle", "I2", "I3"} |->
               CASE c = "idle" -> <<StLock("R"), StLock("S"), StUnlock, StUnlock>>
                 [] c = "init" -> << >>
                 [] OTHER -> <<StLock(IF c = "I2" THEN "R" ELSE "S"), StUnlock>>]]

Apps ==
  {AppLock, AppLockV6, AppSched, AppCapacity, AppRamfunc, AppPriority9, AppPeriodic,
   AppNested}

(***************************************************************************)
(* Device constants and priority encoding.                                 *)
(***************************************************************************)
\* device::NVIC_PRIO_BITS of the lm3s6965
NVIC_PRIO_BITS == 3

\* width of the cycle counter, scaled down
InstantBits == 6

RECURSIVE Pow2(_)
Pow2(n) == IF n = 0 THEN 1 ELSE 2 * Pow2(n - 1)

\* the build profiles: debug has overflow checks and debug assertions
Builds == {"debug", "release"}

\* a call returns a value, or panics
Returned(v) == [panic |-> "", value |-> v]

Panicked(msg) == [panic |-> msg, value |-> 0]

\* logical2hw as it is built: every operand is a u8, so 1 << nvic_prio_bits
\* and the subtraction panic on overflow when overflow checks are on; without
\* them the shift amount is masked to three bits and the subtraction wraps;
\* the bits the outer shift moves out of the u8 are lost in both builds
logical2hwBuilt(logical, nvic_prio_bits, build) ==
  IF build = "debug" /\ nvic_prio_bits >= 8
  THEN Panicked("attempt to shift left with overflow")
  ELSE IF build = "debug" /\ Pow2(nvic_prio_bits % 8) < logical
  THEN Panicked("attempt to subtract with overflow")
  ELSE Returned(U8(U8(Pow2(nvic_prio_bits % 8) - logical) * Pow2(8 - nvic_prio_bits)))

\* logical2hw, in u8 arithmetic, where it returns
logical2hw(logical, nvic_prio_bits) ==
  logical2hwBuilt(logical, nvic_prio_bits, "release").value

\* variant: the logical priority is written without the inversion
PostInitPriorityDirect(priority) ==
  U8(priority * Pow2(8 - NVIC_PRIO_BITS))

\* the priority written by post_init with NVIC.set_priority / SCB.set_priority
PostInitPriority(priority) ==
  U8(U8(Pow2(NVIC_PRIO_BITS) - priority) * Pow2(8 - NVIC_PRIO_BITS))

\* execution priority of thread mode
ThreadPrio == Pow2(8)

RECURSIVE next_power_of_two(_, _)
\* u8::checked_next_power_of_two, searched upwards from the power p
next_power_of_two(n, p) == IF p >= n THEN p ELSE next_power_of_two(n, 2 * p)

\* variant: the power of two below the one that holds the capacity
mk_typenum_capacityBelow(capacity) == Max(1, next_power_of_two(capacity, 1) \div 2)

\* u8::checked_next_power_of_two: None when the power of two is not a u8
checked_next_power_of_two(n) ==
  IF next_power_of_two(n, 1) > 255 THEN None ELSE next_power_of_two(n, 1)

\* the capacities codegen hands to mk_typenum_capacity(_, true): those of the
\* free queues of the tasks and of the ready queues of the dispatchers
PowerOfTwoCapacities(an) ==
  {an.capacities[t] : t \in DOMAIN an.capacities}
  \cup {an.dispatchers[l].capacity : l \in DOMAIN an.dispatchers}

\* mk_typenum_capacity(capacity, true)
mk_typenum_capacity(capacity) == next_power_of_two(capacity, 1)

(***************************************************************************)
(* Instant (src/lib.rs): a wrapping signed counter of InstantBits bits.    *)
(***************************************************************************)
InstantMod == Pow2(InstantBits)

\* the signed value of a wrapped counter
Signed(x) == IF x % InstantMod >= InstantMod \div 2
             THEN (x % InstantMod) - InstantMod ELSE x % InstantMod

\* Instant + Duration: wrapping_add
InstantAdd(i, dur) == Signed(i + dur)

\* the instants compared by value, without regard to the wrap
InstantCmpPlain(a, b) == IF a < b THEN 0 - 1 ELSE IF a = b THEN 0 ELSE 1

\* Ord for Instant: self.0.wrapping_sub(rhs.0).cmp(&0), as -1, 0, 1
InstantCmp(a, b) ==
  LET d == Signed(a - b)
  IN IF d < 0 THEN 0 - 1 ELSE IF d = 0 THEN 0 ELSE 1

\* the values of Instant (i32) and of Duration (u32), at the scaled width
Instants == (0 - InstantMod \div 2)..(InstantMod \div 2 - 1)

Durations == 0..(InstantMod - 1)

\* Instant + Duration (add_assign): debug_assert!(dur.0 < (1 << 31)), then
\* wrapping_add(dur.0 as i32)
add(i, dur, build) ==
  IF build = "debug" /\ ~(dur < InstantMod \div 2)
  THEN Panicked("assertion failed: dur.0 < (1 << 31)")
  ELSE Returned(InstantAdd(i, dur))

\* Instant::duration_since: self.0 - earlier.0 is a plain subtraction, which
\* panics on overflow when overflow checks are on and wraps otherwise; then
\* assert!(diff >= 0)
duration_since(self, earlier, build) ==
  LET diff == self - earlier
  IN IF diff \notin Instants /\ build = "debug"
     THEN Panicked("attempt to subtract with overflow")
     ELSE IF Signed(diff) < 0
     THEN Panicked("second instant is later than self")
     ELSE Returned(Signed(diff))

\* no computation
NoCalc == [op |-> ""]


(***************************************************************************)
(* Run-time state.                                                         *)
(***************************************************************************)

VARIABLES
  app,         \* the application the firmware was generated from
  analysis,    \* the result of the analysis of app, computed once by the macro
  expansion,   \* the stage of the macro expansion, its error, the assertions emitted
  calc,        \* a computation on Instant values or on a timer heap, and its outcome
  stack,       \* the active contexts, the running one last
  basepri,     \* BASEPRI register (0: no masking)
  primask,     \* PRIMASK register (TRUE: interrupts disabled)
  pending,     \* interrupts and exceptions pending in the NVIC / SCB
  enabled,     \* interrupts enabled in the NVIC
  nvic_prio,   \* hardware priority of every interrupt and of SysTick
  fq,          \* task -> free queue of slot indices
  rq,          \* level -> ready queue [buf, head, tail]
  tq,          \* the timer queue: a binary heap of [instant, task, index]
  tickint,     \* SysTick interrupt enabled
  inputs,      \* task -> slot -> payload
  scheduleds,  \* task -> slot -> instant
  now,         \* DWT cycle counter
  dwt,         \* cycle counter enabled
  arrivals,    \* hardware interrupt -> number of times it fired
  trace,       \* what the program printed
  enqlog,      \* level -> the messages enqueued on the ready queue and not yet run,
               \*          in the order in which their enqueue completed
  runlog       \* level -> the message whose task body was invoked last, and the
               \*          oldest message of enqlog at that moment

vars == <<app, analysis, expansion, calc, stack, basepri, primask, pending, enabled, nvic_prio, fq, rq, tq,
          tickint, inputs, scheduleds, now, dwt, arrivals, trace, enqlog, runlog>>

\* variables of the queues and messages
queues == <<fq, rq, tq, tickint, inputs, scheduleds, enqlog, runlog>>

\* variables of the core registers and of the interrupt controller
core == <<basepri, primask, pending, enabled, nvic_prio>>

\* variables of the environment
env == <<app, analysis, expansion, calc, now, dwt, arrivals>>

NoMsg == [task |-> "", index |-> 0]

\* no message was run
NoRun == [task |-> "", index |-> 0, input |-> 0]

RECURSIVE Without(_, _)
\* the sequence s without the first occurrence of m
Without(s, m) ==
  IF s = << >> THEN s
  ELSE IF Head(s) = m THEN Tail(s)
  ELSE <<Head(s)>> \o Without(Tail(s), m)

\* no spawn / schedule / routing in progress
NoCall == [kind |-> "", task |-> "", arg |-> 0, instant |-> 0, index |-> 0,
           tail |-> 0, ok |-> TRUE, err |-> 0]

\* the frame of a context: the locals of its handler
Frame(ctx, kind, prio, cell, initial, pc, body, baseline) ==
  [ctx |-> ctx, kind |-> kind, prio |-> prio, cell |-> cell, initial |-> initial,
   pc |-> pc, ip |-> 1, body |-> body, baseline |-> baseline, input |-> 0,
   locks |-> << >>, call |-> NoCall]

Top == stack[Len(stack)]

SetTop(f) == [stack EXCEPT ![Len(stack)] = f]

Pop == SubSeq(stack, 1, Len(stack) - 1)

TaskLevel(t) == app.tasks[t].priority

DispatcherOf(level) == analysis.dispatchers[level].interrupt

DispatcherInterrupts == {analysis.dispatchers[l].interrupt : l \in DOMAIN analysis.dispatchers}

LevelOf(i) == CHOOSE l \in DOMAIN analysis.dispatchers : analysis.dispatchers[l].interrupt = i

HasTimerQueue == analysis.timer_queue.tasks # {}

\* the statement a context is about to execute
Stmt(f) == app.prog[f.body][f.ip]

AtStmt(op) ==
  /\ Top.pc = "body"
  /\ Top.ip <= Len(app.prog[Top.body])
  /\ Stmt(Top).op = op

\* the context is about to call spawn
AtSpawn == AtStmt("spawn") \/ (AtStmt("spawn_less") /\ Top.input > 0)

\* the argument of the call of spawn
SpawnArg(f) == IF Stmt(f).op = "spawn" THEN Stmt(f).b ELSE f.input - 1

(***************************************************************************)
(* The interrupt controller.                                               *)
(***************************************************************************)
\* execution priority of the running context, as a hardware priority value
ExecPriority ==
  IF primask THEN 0
  ELSE Min(Top.prio, IF basepri = 0 THEN ThreadPrio ELSE basepri)

\* interrupt i is pending, enabled, and of higher priority than the running context
CanTake(i) ==
  /\ i \in pending
  /\ i \in enabled \/ i = "SysTick"
  /\ nvic_prio[i] < ExecPriority

Takeable == {i \in pending : CanTake(i)}

\* the running context executes its next instruction only when no interrupt preempts it
Running == Takeable = {}

\* logical priority of the handler of interrupt i
HandlerPriority(i) ==
  IF i = "SysTick" THEN analysis.timer_queue.priority
  ELSE IF i \in DOMAIN app.interrupts THEN app.interrupts[i].priority
  ELSE LevelOf(i)

HandlerKind(i) ==
  IF i = "SysTick" THEN "systick"
  ELSE IF i \in DOMAIN app.interrupts THEN "interrupt" ELSE "dispatcher"

HandlerEntry(i) ==
  IF i = "SysTick" THEN "st_lock"
  ELSE IF i \in DOMAIN app.interrupts THEN "body" ELSE "deq"

AllInterrupts == DOMAIN app.interrupts \cup DispatcherInterrupts \cup {"SysTick"}


(***************************************************************************)
(* Mutex::lock (src/lib.rs).  The entry (read the cell, raise the mask,    *)
(* set the cell) is one step, the closure runs in steps of its own, and    *)
(* the exit (restore the mask, restore the cell) is one step.              *)
(***************************************************************************)
\* variant: the cell is compared with <= instead of <
LockModeLe(cell, CEILING, armv7m) ==
  IF cell <= CEILING
  THEN IF armv7m /\ CEILING # Pow2(NVIC_PRIO_BITS) THEN "basepri" ELSE "primask"
  ELSE "noop"

\* which branch of lock is taken
LockMode(cell, CEILING, armv7m) ==
  IF cell < CEILING
  THEN IF armv7m /\ CEILING # Pow2(NVIC_PRIO_BITS) THEN "basepri" ELSE "primask"
  ELSE "noop"

\* the activation record of a lock call (pre_* are the registers before the call)
LockRec(cls, name, level, CEILING, current, mode) ==
  [cls |-> cls, name |-> name, level |-> level, ceiling |-> CEILING,
   current |-> current, mode |-> mode,
   pre_basepri |-> basepri, pre_primask |-> primask]

\* the cell while the closure runs
LockEnterCell(mode, cell, CEILING) ==
  IF mode = "primask" THEN 255
  ELSE IF mode = "basepri" THEN CEILING ELSE cell

\* variant: the write of BASEPRI on entry is missing
LockEnterBasepriNoWrite(mode, CEILING, bp) == bp

\* BASEPRI while the closure runs
LockEnterBasepri(mode, CEILING, bp) ==
  IF mode = "basepri" THEN logical2hw(CEILING, NVIC_PRIO_BITS) ELSE bp

\* PRIMASK while the closure runs: interrupt::free disables the interrupts
LockEnterPrimask(mode, pm) == IF mode = "primask" THEN TRUE ELSE pm

\* variant: the exit writes the encoding of the ceiling instead of that of current
LockExitBasepriCeiling(rec, bp) ==
  IF rec.mode = "basepri" THEN logical2hw(rec.ceiling, NVIC_PRIO_BITS) ELSE bp

\* BASEPRI after the closure returned
LockExitBasepri(rec, bp) ==
  IF rec.mode = "basepri" THEN logical2hw(rec.current, NVIC_PRIO_BITS) ELSE bp

\* variant: the interrupts are not enabled again
LockExitPrimaskStays(rec, pm) == pm

\* PRIMASK after the closure returned: interrupt::free enables the interrupts
\* again if they were enabled before
LockExitPrimask(rec, pm) ==
  IF rec.mode = "primask" THEN rec.pre_primask ELSE pm

\* variant: the cell is not written back when the closure returns
LockExitCellKeeps(rec, cell) == cell

\* the cell after the closure returned
LockExitCell(rec, cell) ==
  IF rec.mode \in {"primask", "basepri"} THEN rec.current ELSE cell

\* the frame after the entry of a lock call
Locked(f, rec) ==
  [f EXCEPT !.locks = Append(@, rec),
            !.cell = LockEnterCell(rec.mode, f.cell, rec.ceiling)]

InnerLock(f) == f.locks[Len(f.locks)]

\* the frame after the exit of the innermost lock call
Unlocked(f) ==
  [f EXCEPT !.locks = SubSeq(@, 1, Len(@) - 1),
            !.cell = LockExitCell(InnerLock(f), f.cell)]

\* the mutex proxy generated by mk_resource: lock with the analysed CEILING
MutexRec(f, cls, name, level, CEILING) ==
  LockRec(cls, name, level, CEILING, f.cell, LockMode(f.cell, CEILING, app.armv7m))

\* the registers after the entry / exit of a lock call
EnterRegs(rec) ==
  /\ basepri' = LockEnterBasepri(rec.mode, rec.ceiling, basepri)
  /\ primask' = LockEnterPrimask(rec.mode, primask)

ExitRegs(rec) ==
  /\ basepri' = LockExitBasepri(rec, basepri)
  /\ primask' = LockExitPrimask(rec, primask)

\* logical priority the prelude gives to the cell of a context
BasePriority(f) ==
  IF f.kind = "init" THEN 255
  ELSE IF f.kind = "idle" THEN 0
  ELSE HandlerPriority(f.ctx)

\* export::run: the handler body runs between a read and a write-back of BASEPRI
RunExit(initial, bp, armv7m) == IF armv7m THEN initial ELSE bp

(***************************************************************************)
(* Queues.                                                                 *)
(***************************************************************************)
\* ReadyQueue::new() with the capacity of the dispatcher rounded to a power of two
NewReadyQueue(capacity) ==
  [buf |-> [k \in 0..(mk_typenum_capacity(capacity) - 1) |-> NoMsg],
   head |-> 0, tail |-> 0]

RqCap(q) == Cardinality(DOMAIN q.buf)

\* variant: the indices are enqueued from the last to the first
FullFreeQueueReversed(capacity) == [i \in 1..capacity |-> capacity - i]

\* the free queue after pre-init: for i in 0..capacity { enqueue_unchecked(i) }
FullFreeQueue(capacity) == [i \in 1..capacity |-> i - 1]

Swap(h, i, j) == [h EXCEPT ![i] = h[j], ![j] = h[i]]

\* order of the entries of the timer queue
Less(e1, e2) == InstantCmp(e1.instant, e2.instant) < 0

RECURSIVE SiftUp(_, _)
SiftUp(h, pos) ==
  IF pos > 1 /\ Less(h[pos], h[pos \div 2])
  THEN SiftUp(Swap(h, pos, pos \div 2), pos \div 2)
  ELSE h

RECURSIVE SiftDown(_, _)
SiftDown(h, pos) ==
  LET l == 2 * pos
      r == 2 * pos + 1
      c == IF r <= Len(h) /\ Less(h[r], h[l]) THEN r ELSE l
  IN IF l <= Len(h) /\ Less(h[c], h[pos])
     THEN SiftDown(Swap(h, pos, c), c)
     ELSE h

\* push and sift up
HeapPush(h, e) == SiftUp(Append(h, e), Len(h) + 1)

\* pop the root and sift down
HeapPop(h) ==
  IF Len(h) = 1 THEN << >>
  ELSE SiftDown([i \in 1..(Len(h) - 1) |-> IF i = 1 THEN h[Len(h)] ELSE h[i]], 1)

\* variant: the head of the timer queue is taken whatever its instant
DueAlways == tq # << >>

\* the head of the timer queue is due
Due == tq # << >> /\ InstantCmp(tq[1].instant, now) <= 0


(***************************************************************************)
(* The macro (macros/src/lib.rs): parse, check, analyze, post-check,       *)
(* generate.                                                               *)
(***************************************************************************)
\* no compile error
NoError == [msg |-> "", n |-> 0]

\* the state of the expansion: the stage reached, the compile error returned,
\* the assertions emitted with the generated code
Expansion(stage, error, asserts) ==
  [stage |-> stage, error |-> error, assertions |-> asserts]

\* the macro panics: the compiler reports the panic message and nothing is expanded
Panic(msg) == [msg |-> msg, n |-> 0]

\* the names a context refers to are declared
Declared(a, c) ==
  /\ c.resources \subseteq DOMAIN a.resources
  /\ c.spawn \subseteq DOMAIN a.tasks
  /\ c.schedule \subseteq DOMAIN a.tasks

\* syntax::App::parse: a priority is a literal in the range 1..=255; the
\* number of priority bits of the device is not known to the macro
parse(a) ==
  IF \E t \in DOMAIN a.tasks : a.tasks[t].priority \notin 1..255
  THEN [msg |-> "this literal must be in the range 1...255", n |-> 0]
  ELSE IF \E i \in DOMAIN a.interrupts : a.interrupts[i].priority \notin 1..255
  THEN [msg |-> "this literal must be in the range 1...255", n |-> 0]
  ELSE NoError

\* the names the contexts of the application refer to are declared
AllDeclared(a) ==
  /\ Declared(a, a.init)
  /\ a.idle.present => Declared(a, a.idle)
  /\ \A i \in DOMAIN a.interrupts : Declared(a, a.interrupts[i])
  /\ \A t \in DOMAIN a.tasks : Declared(a, a.tasks[t])

\* variant: the number of free interrupts is not checked
check_app_uncounted(a) ==
  IF ~AllDeclared(a)
  THEN [msg |-> "this resource or task has not been declared", n |-> 0]
  ELSE IF \E i \in DOMAIN a.interrupts : i \in SeqToSet(a.free_interrupts)
  THEN [msg |-> "free interrupts (extern { .. }) cannot be used as interrupt handlers",
        n |-> 0]
  ELSE NoError

\* variant: a free interrupt can be used as an interrupt handler
check_app_reusing(a) ==
  IF ~AllDeclared(a)
  THEN [msg |-> "this resource or task has not been declared", n |-> 0]
  ELSE IF Cardinality(Levels(a)) > Len(a.free_interrupts)
  THEN [msg |-> "free interrupt (extern { .. }) is required",
        n |-> Cardinality(Levels(a))]
  ELSE NoError

\* check::app: the references are declared, there is one free interrupt for
\* every priority level of the tasks, and no free interrupt is used as an
\* interrupt handler
check_app(a) ==
  IF ~AllDeclared(a)
  THEN [msg |-> "this resource or task has not been declared", n |-> 0]
  ELSE IF Cardinality(Levels(a)) > Len(a.free_interrupts)
  THEN [msg |-> "free interrupt (extern { .. }) is required",
        n |-> Cardinality(Levels(a))]
  ELSE IF \E i \in DOMAIN a.interrupts : i \in SeqToSet(a.free_interrupts)
  THEN [msg |-> "free interrupts (extern { .. }) cannot be used as interrupt handlers",
        n |-> 0]
  ELSE NoError

\* post_check::ownerships: a resource that is not in the ownership map is owned
\* by init and must not be in the resource list of a task
post_check(a, ownerships) ==
  IF \E r \in DOMAIN a.resources :
       /\ r \notin DOMAIN ownerships
       /\ \E t \in DOMAIN a.tasks : r \in a.tasks[t].resources
  THEN [msg |-> "this resource is owned by init", n |-> 0]
  ELSE NoError

\* variant: no assert_sync is emitted
assertionsSendOnly(a, an) ==
  {<<"assert_send", t>> : t \in an.needs_send}

\* the assertions emitted in main: assert_sync::<ty>() for every type of
\* needs_sync, assert_send::<inputs of task>() for every task of needs_send
assertions(a, an) ==
  {<<"assert_sync", ty>> : ty \in an.needs_sync}
  \cup {<<"assert_send", t>> : t \in an.needs_send}

\* the macro accepts the application
Accepted(a) ==
  /\ parse(a) = NoError
  /\ check_app(a) = NoError
  /\ post_check(a, Ownerships(a)) = NoError

(***************************************************************************)
(* Initial state: reset, at the entry of main.                             *)
(***************************************************************************)
InitOf(a) ==
  /\ app = a
  /\ analysis = Analysis(a)
  /\ expansion = Expansion("generated", NoError, assertions(a, Analysis(a)))
  /\ calc = NoCalc
  /\ stack = <<Frame("main", "boot", ThreadPrio, 255, 0, "pre_init", "init", 0)>>
  /\ basepri = 0
  /\ primask = FALSE
  /\ pending = {}
  /\ enabled = {}
  /\ nvic_prio = [i \in DOMAIN a.interrupts
                       \cup {Dispatchers(a)[l].interrupt : l \in Levels(a)}
                       \cup {"SysTick"} |-> 0]
  /\ fq = [t \in DOMAIN a.tasks |-> << >>]
  /\ rq = [l \in Levels(a) |-> NewReadyQueue(1)]
  /\ tq = << >>
  /\ tickint = FALSE
  /\ inputs = [t \in DOMAIN a.tasks |-> [i \in 0..(Capacities(a)[t] - 1) |-> 0]]
  /\ scheduleds = [t \in DOMAIN a.tasks |-> [i \in 0..(Capacities(a)[t] - 1) |-> 0]]
  /\ now = 0
  /\ dwt = FALSE
  /\ arrivals = [i \in DOMAIN a.interrupts |-> 0]
  /\ trace = << >>
  /\ enqlog = [l \in Levels(a) |-> << >>]
  /\ runlog = [l \in Levels(a) |-> [msg |-> NoRun, oldest |-> NoRun]]

Init == \E a \in Apps : Accepted(a) /\ InitOf(a)

(***************************************************************************)
(* main: interrupt::disable, pre_init, init, post_init, interrupt::enable, *)
(* idle.                                                                   *)
(***************************************************************************)
\* variant: main does not disable the interrupts
PreInitUnmasked ==
  /\ Top.pc = "pre_init"
  /\ primask' = FALSE
  /\ rq' = [l \in DOMAIN analysis.dispatchers |-> NewReadyQueue(analysis.dispatchers[l].capacity)]
  /\ fq' = [t \in DOMAIN app.tasks |-> FullFreeQueue(analysis.capacities[t])]
  /\ tq' = << >>
  /\ dwt' = FALSE
  /\ now' = 0
  /\ stack' = SetTop([Top EXCEPT !.kind = "init", !.pc = "body", !.body = "init",
                                 !.cell = 255, !.baseline = 0])
  /\ UNCHANGED <<app, analysis, expansion, calc, basepri, pending, enabled, nvic_prio, tickint, inputs,
                 scheduleds, arrivals, trace, enqlog, runlog>>

\* interrupt::disable() and pre_init, then the call of init
PreInit ==
  /\ Top.pc = "pre_init"
  /\ primask' = TRUE
  /\ rq' = [l \in DOMAIN analysis.dispatchers |-> NewReadyQueue(analysis.dispatchers[l].capacity)]
  /\ fq' = [t \in DOMAIN app.tasks |-> FullFreeQueue(analysis.capacities[t])]
  /\ tq' = << >>
  /\ dwt' = FALSE
  /\ now' = 0
  /\ stack' = SetTop([Top EXCEPT !.kind = "init", !.pc = "body", !.body = "init",
                                 !.cell = 255, !.baseline = 0])
  /\ UNCHANGED <<app, analysis, expansion, calc, basepri, pending, enabled, nvic_prio, tickint, inputs,
                 scheduleds, arrivals, trace, enqlog, runlog>>

\* init returns
InitDone ==
  /\ Top.kind = "init" /\ Top.pc = "body"
  /\ Top.ip > Len(app.prog["init"])
  /\ stack' = SetTop([Top EXCEPT !.pc = "post_init"])
  /\ UNCHANGED <<core, queues, env, trace>>

\* the handlers whose priority post_init sets: the interrupts, SysTick when
\* there is a timer queue, the dispatchers
PostInitHandlers == {i \in DOMAIN nvic_prio : i = "SysTick" => HasTimerQueue}

\* assert!(priority <= (1 << NVIC_PRIO_BITS)) fails for the handler
Unsupported(i) == HandlerPriority(i) > Pow2(NVIC_PRIO_BITS)

\* position of the handler in post_init: interrupts, SysTick, dispatchers
PostInitRank(i) ==
  IF i \in DOMAIN app.interrupts THEN 1 ELSE IF i = "SysTick" THEN 2 ELSE 3

\* post_init: enable the interrupts in the NVIC, set the priorities, start the
\* counter; before a priority is set it is asserted to be supported by the
\* device, and the first assertion that fails panics
PostInit ==
  /\ Top.pc = "post_init"
  /\ IF \A i \in PostInitHandlers : ~Unsupported(i)
     THEN /\ enabled' = DOMAIN app.interrupts \cup DispatcherInterrupts
          /\ nvic_prio' = [i \in DOMAIN nvic_prio |->
                             IF i = "SysTick" /\ ~HasTimerQueue THEN nvic_prio[i]
                             ELSE PostInitPriority(HandlerPriority(i))]
          /\ dwt' = TRUE
          /\ stack' = SetTop([Top EXCEPT !.pc = "enable"])
     ELSE \E bad \in {i \in PostInitHandlers : Unsupported(i)} :
          \E done \in SUBSET {i \in PostInitHandlers : ~Unsupported(i)} :
            /\ \A i \in PostInitHandlers : Unsupported(i) => PostInitRank(bad) <= PostInitRank(i)
            /\ \A i \in done : PostInitRank(i) <= PostInitRank(bad)
            /\ \A i \in PostInitHandlers :
                 (~Unsupported(i) /\ PostInitRank(i) < PostInitRank(bad)) => i \in done
            /\ enabled' = (done \ {"SysTick"})
                             \cup (IF PostInitRank(bad) = 2 THEN {} ELSE {bad})
            /\ nvic_prio' = [i \in DOMAIN nvic_prio |->
                               IF i \in done THEN PostInitPriority(HandlerPriority(i))
                               ELSE nvic_prio[i]]
            /\ dwt' = dwt
            /\ stack' = SetTop([Top EXCEPT !.pc = "panic"])
  /\ UNCHANGED <<app, analysis, expansion, calc, basepri, primask, pending, queues, now, arrivals, trace>>

\* interrupt::enable(), then the call of idle (or the wfi loop)
EnableInterrupts ==
  /\ Top.pc = "enable"
  /\ primask' = FALSE
  /\ stack' = SetTop([Top EXCEPT !.kind = "idle", !.cell = 0, !.body = "idle",
                                 !.ip = 1,
                                 !.pc = IF app.idle.present THEN "body" ELSE "wfi"])
  /\ UNCHANGED <<app, analysis, expansion, calc, basepri, pending, enabled, nvic_prio, queues, now, dwt,
                 arrivals, trace>>

\* the statements of idle are done: it loops forever
IdleDone ==
  /\ Running
  /\ Top.kind = "idle" /\ Top.pc = "body"
  /\ Top.ip > Len(app.prog["idle"])
  /\ stack' = SetTop([Top EXCEPT !.pc = "wfi"])
  /\ UNCHANGED <<core, queues, env, trace>>

(***************************************************************************)
(* Hardware: interrupt sources, the cycle counter, the SysTick countdown,  *)
(* exception entry.                                                        *)
(***************************************************************************)
\* a peripheral raises interrupt i
Arrive(i) ==
  /\ i \in DOMAIN app.interrupts
  /\ SetSum(DOMAIN arrivals, arrivals) < MaxArrivals
  /\ i \notin pending
  /\ Top.pc # "pre_init"
  /\ arrivals' = [arrivals EXCEPT ![i] = @ + 1]
  /\ pending' = pending \cup {i}
  /\ UNCHANGED <<app, analysis, expansion, calc, stack, basepri, primask, enabled, nvic_prio, queues, now, dwt,
                 trace>>

\* the cycle counter counts
Tick ==
  /\ dwt
  /\ now < MaxTime
  /\ now' = now + 1
  /\ UNCHANGED <<app, analysis, expansion, calc, stack, core, queues, dwt, arrivals, trace>>

\* the SysTick countdown programmed for the head of the timer queue reaches zero
SysTickExpire ==
  /\ tickint
  /\ Due
  /\ "SysTick" \notin pending
  /\ \A k \in 1..Len(stack) : stack[k].kind # "systick"
  /\ pending' = pending \cup {"SysTick"}
  /\ UNCHANGED <<app, analysis, expansion, calc, stack, basepri, primask, enabled, nvic_prio, queues, now, dwt,
                 arrivals, trace>>

\* exception entry: the pending interrupt of the highest priority preempts
Enter(i) ==
  /\ i \in Takeable
  /\ \A j \in Takeable : nvic_prio[i] <= nvic_prio[j]
  /\ pending' = pending \ {i}
  /\ stack' = Append(stack, Frame(i, HandlerKind(i), nvic_prio[i], HandlerPriority(i),
                                  basepri, HandlerEntry(i), i, now))
  /\ UNCHANGED <<app, analysis, expansion, calc, basepri, primask, enabled, nvic_prio, queues, now, dwt,
                 arrivals, trace>>

\* the handler returns: export::run writes BASEPRI back, exception return
HandlerReturn ==
  /\ Running
  /\ \/ Top.kind = "interrupt" /\ Top.pc = "body" /\ Top.ip > Len(app.prog[Top.body])
     \/ Top.pc = "ret"
  /\ basepri' = RunExit(Top.initial, basepri, app.armv7m)
  /\ stack' = Pop
  /\ UNCHANGED <<app, analysis, expansion, calc, primask, pending, enabled, nvic_prio, queues, now, dwt,
                 arrivals, trace>>


(***************************************************************************)
(* Statements of the user's bodies.                                        *)
(***************************************************************************)
NextStmt(f) == [f EXCEPT !.ip = @ + 1]

\* println!
Println ==
  /\ Running
  /\ AtStmt("print")
  /\ trace' = Append(trace, <<Stmt(Top).a,
                              IF Stmt(Top).b = 0 - 1 THEN Top.input
                              ELSE IF Stmt(Top).b = 0 - 2 THEN now
                              ELSE Stmt(Top).b>>)
  /\ stack' = SetTop(NextStmt(Top))
  /\ UNCHANGED <<core, queues, env>>

\* rtfm::pend
Pend ==
  /\ Running
  /\ AtStmt("pend")
  /\ pending' = pending \cup {Stmt(Top).a}
  /\ stack' = SetTop(NextStmt(Top))
  /\ UNCHANGED <<app, analysis, expansion, calc, basepri, primask, enabled, nvic_prio, queues, now, dwt,
                 arrivals, trace>>

\* resources.R.lock(..): the context holds a proxy (prelude, needs_lock) and
\* calls Mutex::lock with the ceiling of R
ResourceLock ==
  /\ Running
  /\ AtStmt("lock")
  /\ needs_lock(analysis.ownerships[Stmt(Top).a], BasePriority(Top))
  /\ LET rec == MutexRec(Top, "res", Stmt(Top).a, 0, analysis.ownerships[Stmt(Top).a].p)
     IN /\ EnterRegs(rec)
        /\ stack' = SetTop(NextStmt(Locked(Top, rec)))
  /\ UNCHANGED <<app, analysis, expansion, calc, pending, enabled, nvic_prio, queues, now, dwt, arrivals, trace>>

\* the context holds a plain reference to R (prelude, no lock needed): the
\* access touches neither the cell nor the masks
ResourceAccess ==
  /\ Running
  /\ AtStmt("lock")
  /\ ~needs_lock(analysis.ownerships[Stmt(Top).a], BasePriority(Top))
  /\ LET rec == LockRec("res", Stmt(Top).a, 0, analysis.ownerships[Stmt(Top).a].p,
                        Top.cell, "direct")
     IN stack' = SetTop(NextStmt(Locked(Top, rec)))
  /\ UNCHANGED <<core, queues, env, trace>>

\* the closure returns (or the plain access ends)
ResourceUnlock ==
  /\ Running
  /\ AtStmt("unlock")
  /\ ExitRegs(InnerLock(Top))
  /\ stack' = SetTop(NextStmt(Unlocked(Top)))
  /\ UNCHANGED <<app, analysis, expansion, calc, pending, enabled, nvic_prio, queues, now, dwt, arrivals, trace>>

(***************************************************************************)
(* spawn and schedule (codegen.rs).                                        *)
(***************************************************************************)
\* variant: every caller passes Instant::now()
SpawnBeginNow ==
  /\ Running
  /\ AtSpawn
  /\ LET t == Stmt(Top).a
         rec == MutexRec(Top, "fq", t, 0, analysis.free_queues[t])
         c == [NoCall EXCEPT !.kind = "spawn", !.task = t, !.arg = SpawnArg(Top),
                             !.instant = now]
     IN /\ EnterRegs(rec)
        /\ stack' = SetTop([Locked(Top, rec) EXCEPT !.pc = "fq_deq", !.call = c])
  /\ UNCHANGED <<app, analysis, expansion, calc, pending, enabled, nvic_prio, queues, now, dwt, arrivals, trace>>

\* spawn.T(x): the caller passes its baseline, idle passes Instant::now();
\* (#free { priority }).lock(..) is entered
SpawnBegin ==
  /\ Running
  /\ AtSpawn
  /\ LET t == Stmt(Top).a
         rec == MutexRec(Top, "fq", t, 0, analysis.free_queues[t])
         c == [NoCall EXCEPT !.kind = "spawn", !.task = t, !.arg = SpawnArg(Top),
                             !.instant = IF Top.kind = "idle" THEN now
                                         ELSE Top.baseline]
     IN /\ EnterRegs(rec)
        /\ stack' = SetTop([Locked(Top, rec) EXCEPT !.pc = "fq_deq", !.call = c])
  /\ UNCHANGED <<app, analysis, expansion, calc, pending, enabled, nvic_prio, queues, now, dwt, arrivals, trace>>

\* the input is 0: the body does not call spawn
SpawnLessDone ==
  /\ Running
  /\ AtStmt("spawn_less") /\ Top.input = 0
  /\ stack' = SetTop(NextStmt(Top))
  /\ UNCHANGED <<core, queues, env, trace>>

\* schedule.T(instant, x): (#free { priority }).lock(..) is entered
ScheduleBegin ==
  /\ Running
  /\ AtStmt("schedule")
  /\ LET t == Stmt(Top).a
         rec == MutexRec(Top, "fq", t, 0, analysis.free_queues[t])
         c == [NoCall EXCEPT !.kind = "schedule", !.task = t, !.arg = Stmt(Top).c,
                             !.instant = InstantAdd(now, Stmt(Top).b)]
     IN /\ EnterRegs(rec)
        /\ stack' = SetTop([Locked(Top, rec) EXCEPT !.pc = "fq_deq", !.call = c])
  /\ UNCHANGED <<app, analysis, expansion, calc, pending, enabled, nvic_prio, queues, now, dwt, arrivals, trace>>

\* f.split().1.dequeue() returns Some(index); the lock returns
FreeDequeueSome ==
  /\ Running
  /\ Top.pc = "fq_deq"
  /\ fq[Top.call.task] # << >>
  /\ fq' = [fq EXCEPT ![Top.call.task] = Tail(@)]
  /\ ExitRegs(InnerLock(Top))
  /\ stack' = SetTop([Unlocked(Top) EXCEPT !.pc = "write",
                        !.call.index = Head(fq[Top.call.task])])
  /\ UNCHANGED <<app, analysis, expansion, calc, pending, enabled, nvic_prio, rq, tq, tickint, inputs,
                 scheduleds, enqlog, runlog, now, dwt, arrivals, trace>>

\* variant: the error does not carry the arguments
FreeDequeueNoneDrops ==
  /\ Running
  /\ Top.pc = "fq_deq"
  /\ fq[Top.call.task] = << >>
  /\ ExitRegs(InnerLock(Top))
  /\ stack' = SetTop(NextStmt([Unlocked(Top) EXCEPT !.pc = "body",
                                 !.call.ok = FALSE, !.call.err = 0]))
  /\ UNCHANGED <<app, analysis, expansion, calc, pending, enabled, nvic_prio, queues, now, dwt, arrivals, trace>>

\* f.split().1.dequeue() returns None; the lock returns; Err((args))
FreeDequeueNone ==
  /\ Running
  /\ Top.pc = "fq_deq"
  /\ fq[Top.call.task] = << >>
  /\ ExitRegs(InnerLock(Top))
  /\ stack' = SetTop(NextStmt([Unlocked(Top) EXCEPT !.pc = "body",
                                 !.call.ok = FALSE, !.call.err = Top.call.arg]))
  /\ UNCHANGED <<app, analysis, expansion, calc, pending, enabled, nvic_prio, queues, now, dwt, arrivals, trace>>

\* the two ptr::write of spawn, then #ready { priority }.lock(..) is entered
SpawnWrite ==
  /\ Running
  /\ Top.pc = "write" /\ Top.call.kind = "spawn"
  /\ LET c == Top.call
         rec == MutexRec(Top, "rq", "", TaskLevel(c.task),
                         analysis.ready_queues[TaskLevel(c.task)])
     IN /\ inputs' = [inputs EXCEPT ![c.task][c.index] = c.arg]
        /\ scheduleds' = [scheduleds EXCEPT ![c.task][c.index] = c.instant]
        /\ EnterRegs(rec)
        /\ stack' = SetTop([Locked(Top, rec) EXCEPT !.pc = "rq_load"])
  /\ UNCHANGED <<app, analysis, expansion, calc, pending, enabled, nvic_prio, fq, rq, tq, tickint, enqlog,
                 runlog, now, dwt, arrivals, trace>>

\* the two ptr::write of schedule, then #timer_queue { priority }.lock(..) is entered
ScheduleWrite ==
  /\ Running
  /\ Top.pc = "write" /\ Top.call.kind = "schedule"
  /\ LET c == Top.call
         rec == MutexRec(Top, "tq", "", 0, analysis.timer_queue.ceiling)
     IN /\ inputs' = [inputs EXCEPT ![c.task][c.index] = c.arg]
        /\ scheduleds' = [scheduleds EXCEPT ![c.task][c.index] = c.instant]
        /\ EnterRegs(rec)
        /\ stack' = SetTop([Locked(Top, rec) EXCEPT !.pc = "tq_enq"])
  /\ UNCHANGED <<app, analysis, expansion, calc, pending, enabled, nvic_prio, fq, rq, tq, tickint, enqlog,
                 runlog, now, dwt, arrivals, trace>>

\* enqueue_unchecked on the ready queue, first instruction: load the tail
ReadyLoad ==
  /\ Running
  /\ Top.pc = "rq_load"
  /\ stack' = SetTop([Top EXCEPT !.pc = "rq_write",
                        !.call.tail = rq[TaskLevel(Top.call.task)].tail])
  /\ UNCHANGED <<core, queues, env, trace>>

\* enqueue_unchecked on the ready queue: write the item at the loaded tail
ReadyWrite ==
  /\ Running
  /\ Top.pc = "rq_write"
  /\ LET l == TaskLevel(Top.call.task)
     IN rq' = [rq EXCEPT ![l].buf[Top.call.tail % RqCap(rq[l])] =
                 [task |-> Top.call.task, index |-> Top.call.index]]
  /\ stack' = SetTop([Top EXCEPT !.pc = "rq_store"])
  /\ UNCHANGED <<core, env, trace, fq, tq, tickint, inputs, scheduleds, enqlog, runlog>>

\* enqueue_unchecked on the ready queue: store the new tail; the lock returns
ReadyStore ==
  /\ Running
  /\ Top.pc = "rq_store"
  /\ LET l == TaskLevel(Top.call.task)
     IN /\ rq' = [rq EXCEPT ![l].tail = Top.call.tail + 1]
        /\ enqlog' = [enqlog EXCEPT ![l] =
                        Append(@, [task |-> Top.call.task, index |-> Top.call.index,
                                   input |-> inputs[Top.call.task][Top.call.index]])]
  /\ ExitRegs(InnerLock(Top))
  /\ stack' = SetTop([Unlocked(Top) EXCEPT !.pc = "pend"])
  /\ UNCHANGED <<app, analysis, expansion, calc, pending, enabled, nvic_prio, fq, tq, tickint, inputs,
                 scheduleds, runlog, now, dwt, arrivals, trace>>

\* variant: spawn returns Ok(()) without pending the dispatcher
SpawnPendNone ==
  /\ Running
  /\ Top.pc = "pend" /\ Top.call.kind = "spawn"
  /\ pending' = pending
  /\ stack' = SetTop(NextStmt([Top EXCEPT !.pc = "body", !.call.ok = TRUE]))
  /\ UNCHANGED <<app, analysis, expansion, calc, basepri, primask, enabled, nvic_prio, queues, now, dwt,
                 arrivals, trace>>

\* rtfm::pend(dispatcher) at the end of spawn; Ok(())
SpawnPend ==
  /\ Running
  /\ Top.pc = "pend" /\ Top.call.kind = "spawn"
  /\ pending' = pending \cup {DispatcherOf(TaskLevel(Top.call.task))}
  /\ stack' = SetTop(NextStmt([Top EXCEPT !.pc = "body", !.call.ok = TRUE]))
  /\ UNCHANGED <<app, analysis, expansion, calc, basepri, primask, enabled, nvic_prio, queues, now, dwt,
                 arrivals, trace>>

\* tq.enqueue_unchecked(nr): push on the heap; a new head starts the SysTick
\* interrupt; the lock returns; Ok(())
TimerEnqueue ==
  /\ Running
  /\ Top.pc = "tq_enq"
  /\ LET nr == [instant |-> Top.call.instant, task |-> Top.call.task,
                index |-> Top.call.index]
         newhead == tq = << >> \/ Less(nr, tq[1])
     IN /\ tq' = HeapPush(tq, nr)
        /\ tickint' = IF newhead THEN TRUE ELSE tickint
        /\ pending' = IF newhead THEN pending \cup {"SysTick"} ELSE pending
  /\ ExitRegs(InnerLock(Top))
  /\ stack' = SetTop(NextStmt([Unlocked(Top) EXCEPT !.pc = "body", !.call.ok = TRUE]))
  /\ UNCHANGED <<app, analysis, expansion, calc, enabled, nvic_prio, fq, rq, inputs, scheduleds, enqlog, runlog,
                 now, dwt, arrivals, trace>>


(***************************************************************************)
(* The SysTick handler: sys_tick drains the due entries of the timer queue *)
(* and routes each to the ready queue of its level.                        *)
(***************************************************************************)
\* tq.lock(..) is entered
SysTickLock ==
  /\ Running
  /\ Top.pc = "st_lock"
  /\ LET rec == MutexRec(Top, "tq", "", 0, analysis.timer_queue.ceiling)
     IN /\ EnterRegs(rec)
        /\ stack' = SetTop([Locked(Top, rec) EXCEPT !.pc = "st_peek"])
  /\ UNCHANGED <<app, analysis, expansion, calc, pending, enabled, nvic_prio, queues, now, dwt, arrivals, trace>>

\* the head is due: pop it; the lock returns Some((task, index))
SysTickPop ==
  /\ Running
  /\ Top.pc = "st_peek"
  /\ Due
  /\ tq' = HeapPop(tq)
  /\ ExitRegs(InnerLock(Top))
  /\ stack' = SetTop([Unlocked(Top) EXCEPT !.pc = "route",
                        !.call = [NoCall EXCEPT !.kind = "route", !.task = tq[1].task,
                                                !.index = tq[1].index]])
  /\ UNCHANGED <<app, analysis, expansion, calc, pending, enabled, nvic_prio, fq, rq, tickint, inputs,
                 scheduleds, enqlog, runlog, now, dwt, arrivals, trace>>

\* the head is in the future (reload SysTick) or the queue is empty (disable
\* the SysTick interrupt); the lock returns None and sys_tick returns
SysTickDone ==
  /\ Running
  /\ Top.pc = "st_peek"
  /\ ~Due
  /\ tickint' = IF tq = << >> THEN FALSE ELSE tickint
  /\ ExitRegs(InnerLock(Top))
  /\ stack' = SetTop([Unlocked(Top) EXCEPT !.pc = "ret"])
  /\ UNCHANGED <<app, analysis, expansion, calc, pending, enabled, nvic_prio, fq, rq, tq, inputs, scheduleds,
                 enqlog, runlog, now, dwt, arrivals, trace>>

\* the arm of the popped task: (#ready { priority }).lock(..) is entered
SysTickRoute ==
  /\ Running
  /\ Top.pc = "route"
  /\ LET rec == MutexRec(Top, "rq", "", TaskLevel(Top.call.task),
                         analysis.ready_queues[TaskLevel(Top.call.task)])
     IN /\ EnterRegs(rec)
        /\ stack' = SetTop([Locked(Top, rec) EXCEPT !.pc = "rq_load"])
  /\ UNCHANGED <<app, analysis, expansion, calc, pending, enabled, nvic_prio, queues, now, dwt, arrivals, trace>>

\* rtfm::pend(dispatcher) at the end of the arm; sys_tick loops
SysTickPend ==
  /\ Running
  /\ Top.pc = "pend" /\ Top.call.kind = "route"
  /\ pending' = pending \cup {DispatcherOf(TaskLevel(Top.call.task))}
  /\ stack' = SetTop([Top EXCEPT !.pc = "st_lock"])
  /\ UNCHANGED <<app, analysis, expansion, calc, basepri, primask, enabled, nvic_prio, queues, now, dwt,
                 arrivals, trace>>

(***************************************************************************)
(* The dispatcher of a priority level.                                     *)
(***************************************************************************)
\* #ready.get_mut().split().1.dequeue() returns Some((task, index))
DispatchDequeue ==
  /\ Running
  /\ Top.pc = "deq"
  /\ LET l == LevelOf(Top.ctx)
         q == rq[l]
         m == q.buf[q.head % RqCap(q)]
     IN /\ q.head # q.tail
        /\ rq' = [rq EXCEPT ![l].head = @ + 1]
        /\ stack' = SetTop([Top EXCEPT !.pc = "arm",
                              !.call = [NoCall EXCEPT !.kind = "dispatch",
                                          !.task = m.task, !.index = m.index]])
  /\ UNCHANGED <<core, env, trace, fq, tq, tickint, inputs, scheduleds, enqlog, runlog>>

\* dequeue returns None: the while loop and the handler end
DispatchEmpty ==
  /\ Running
  /\ Top.pc = "deq"
  /\ rq[LevelOf(Top.ctx)].head = rq[LevelOf(Top.ctx)].tail
  /\ stack' = SetTop([Top EXCEPT !.pc = "ret"])
  /\ UNCHANGED <<core, queues, env, trace>>

\* variant: the slot is not given back before the task is called
DispatchArmKeeps ==
  /\ Running
  /\ Top.pc = "arm"
  /\ LET t == Top.call.task
         i == Top.call.index
     IN /\ fq' = fq
        /\ runlog' = [runlog EXCEPT ![LevelOf(Top.ctx)] =
                        [msg |-> [task |-> t, index |-> i, input |-> inputs[t][i]],
                         oldest |-> IF enqlog[LevelOf(Top.ctx)] = << >> THEN NoRun
                                    ELSE Head(enqlog[LevelOf(Top.ctx)])]]
        /\ enqlog' = [enqlog EXCEPT ![LevelOf(Top.ctx)] =
                        Without(@, [task |-> t, index |-> i, input |-> inputs[t][i]])]
        /\ stack' = SetTop([Top EXCEPT !.pc = "body", !.body = t, !.ip = 1,
                              !.cell = TaskLevel(t),
                              !.baseline = scheduleds[t][i],
                              !.input = inputs[t][i]])
  /\ UNCHANGED <<core, env, trace, rq, tq, tickint, inputs, scheduleds>>

\* the match arm: read the slot, give the slot back to the free queue, call the task
DispatchArm ==
  /\ Running
  /\ Top.pc = "arm"
  /\ LET t == Top.call.task
         i == Top.call.index
     IN /\ fq' = [fq EXCEPT ![t] = Append(@, i)]
        /\ runlog' = [runlog EXCEPT ![LevelOf(Top.ctx)] =
                        [msg |-> [task |-> t, index |-> i, input |-> inputs[t][i]],
                         oldest |-> IF enqlog[LevelOf(Top.ctx)] = << >> THEN NoRun
                                    ELSE Head(enqlog[LevelOf(Top.ctx)])]]
        /\ enqlog' = [enqlog EXCEPT ![LevelOf(Top.ctx)] =
                        Without(@, [task |-> t, index |-> i, input |-> inputs[t][i]])]
        /\ stack' = SetTop([Top EXCEPT !.pc = "body", !.body = t, !.ip = 1,
                              !.cell = TaskLevel(t),
                              !.baseline = scheduleds[t][i],
                              !.input = inputs[t][i]])
  /\ UNCHANGED <<core, env, trace, rq, tq, tickint, inputs, scheduleds>>

\* the task returns to the dispatcher
TaskDone ==
  /\ Running
  /\ Top.kind = "dispatcher" /\ Top.pc = "body"
  /\ Top.ip > Len(app.prog[Top.body])
  /\ stack' = SetTop([Top EXCEPT !.pc = "deq"])
  /\ UNCHANGED <<core, queues, env, trace>>

(***************************************************************************)
(* Specifications.                                                         *)
(***************************************************************************)
\* steps of the program
Program ==
  \/ PreInit \/ InitDone \/ PostInit \/ EnableInterrupts \/ IdleDone
  \/ Println \/ Pend \/ ResourceLock \/ ResourceAccess \/ ResourceUnlock
  \/ SpawnBegin \/ SpawnLessDone \/ ScheduleBegin \/ FreeDequeueSome \/ FreeDequeueNone
  \/ SpawnWrite \/ ScheduleWrite \/ ReadyLoad \/ ReadyWrite \/ ReadyStore
  \/ SpawnPend \/ TimerEnqueue
  \/ SysTickLock \/ SysTickPop \/ SysTickDone \/ SysTickRoute \/ SysTickPend
  \/ DispatchDequeue \/ DispatchEmpty \/ DispatchArm \/ TaskDone
  \/ HandlerReturn

\* steps of the hardware
Hardware ==
  \/ \E i \in AllInterrupts : Enter(i)
  \/ \E i \in DOMAIN app.interrupts : Arrive(i)
  \/ Tick
  \/ SysTickExpire

Next == Program \/ Hardware

Spec == Init /\ [][Next]_vars

(***************************************************************************)
(* The expansion of #[app] on a family of applications.                    *)
(***************************************************************************)
\* the largest task / interrupt priority of the family
MaxPrio == 2

\* an application of which only the declarations matter
Model(name, resources, tasks, interrupts, idle, init, free_interrupts) ==
  [name |-> name,
   armv7m |-> TRUE,
   resources |-> resources,
   tasks |-> tasks,
   interrupts |-> interrupts,
   idle |-> idle,
   init |-> init,
   free_interrupts |-> free_interrupts,
   prog |-> [c \in {} |-> << >>]]

NoInit == [resources |-> NoNames, spawn |-> NoNames, schedule |-> NoNames]

\* tests/cfail/insufficient-free-interrupts.rs: one task, no extern block
AppInsufficientFreeInterrupts ==
  Model("insufficient-free-interrupts",
        [r \in {} |-> [mutable |-> TRUE, ty |-> "u32"]],
        [t \in {"foo"} |-> TaskDecl(1, 0, NoNames, NoNames, NoNames)],
        [i \in {} |-> IntDecl(1, NoNames, NoNames, NoNames)],
        NoIdle, NoInit, << >>)

\* tests/cfail/used-free-interrupt.rs: UART0 is a handler and a free interrupt
AppUsedFreeInterrupt ==
  Model("used-free-interrupt",
        [r \in {} |-> [mutable |-> TRUE, ty |-> "u32"]],
        [t \in {} |-> TaskDecl(1, 0, NoNames, NoNames, NoNames)],
        [i \in {"UART0"} |-> IntDecl(1, NoNames, NoNames, NoNames)],
        NoIdle, NoInit, <<"UART0">>)

\* tests/cpass/no-send.rs: foo spawns bar, both at priority 1
AppNoSend ==
  Model("no-send",
        [r \in {} |-> [mutable |-> TRUE, ty |-> "u32"]],
        [t \in {"foo", "bar"} |->
           IF t = "foo" THEN TaskDecl(1, 0, NoNames, {"bar"}, NoNames)
           ELSE TaskDecl(1, 0, NoNames, NoNames, NoNames)],
        [i \in {} |-> IntDecl(1, NoNames, NoNames, NoNames)],
        NoIdle, NoInit, <<"UART0">>)

\* tests/cpass/no-sync.rs: foo and bar, both at priority 1, read X
AppNoSync ==
  Model("no-sync",
        [r \in {"X"} |-> [mutable |-> FALSE, ty |-> "NotSync"]],
        [t \in {"foo", "bar"} |-> TaskDecl(1, 0, {"X"}, NoNames, NoNames)],
        [i \in {} |-> IntDecl(1, NoNames, NoNames, NoNames)],
        NoIdle, NoInit, <<"UART0">>)

\* a task at priority 0, which is not a priority literal
AppPriority0 ==
  Model("priority0",
        [r \in {} |-> [mutable |-> TRUE, ty |-> "u32"]],
        [t \in {"foo"} |-> TaskDecl(0, 0, NoNames, NoNames, NoNames)],
        [i \in {} |-> IntDecl(1, NoNames, NoNames, NoNames)],
        NoIdle, NoInit, << >>)

\* tasks ta and tb, interrupt I and idle access the read-only resources X and Y,
\* both of type T, and the mutable resource Z
ResourceModels ==
  {Model("resources",
         [r \in {"X", "Y", "Z"} |->
            IF r = "Z" THEN [mutable |-> TRUE, ty |-> "M"]
            ELSE [mutable |-> FALSE, ty |-> "T"]],
         [t \in {"ta", "tb"} |->
            IF t = "ta" THEN TaskDecl(m.pa, 0, m.ra, NoNames, NoNames)
            ELSE TaskDecl(m.pb, 0, m.rb, NoNames, NoNames)],
         [i \in {"I"} |-> IntDecl(m.pi, m.ri, NoNames, NoNames)],
         [present |-> TRUE, resources |-> m.rd, spawn |-> NoNames, schedule |-> NoNames],
         NoInit, <<"F1", "F2">>) :
     m \in [pa : 1..MaxPrio, pb : 1..MaxPrio, pi : 1..MaxPrio,
            ra : SUBSET {"X", "Y"}, rb : SUBSET {"X", "Z"},
            ri : SUBSET {"X", "Z"}, rd : SUBSET {"Y"}]}

\* tasks ta and tb, interrupt I, idle and init spawn and schedule ta and tb;
\* tb declares a capacity (1) or none (0)
CallModels ==
  {Model("calls",
         [r \in {} |-> [mutable |-> TRUE, ty |-> "u32"]],
         [t \in {"ta", "tb"} |->
            IF t = "ta" THEN TaskDecl(m.pa, 0, NoNames, m.sa, m.ca)
            ELSE TaskDecl(m.pb, m.capb, NoNames, NoNames, m.cb)],
         [i \in {"I"} |-> IntDecl(m.pi, NoNames, m.si, m.ci)],
         [present |-> TRUE, resources |-> NoNames, spawn |-> NoNames, schedule |-> m.cd],
         [resources |-> NoNames, spawn |-> m.sn, schedule |-> m.cn],
         <<"F1", "F2">>) :
     m \in [pa : 1..MaxPrio, pb : 1..MaxPrio, pi : 1..MaxPrio, capb : {0, 1},
            sa : SUBSET {"tb"}, ca : SUBSET {"tb"}, cb : SUBSET {"ta"},
            si : SUBSET {"tb"}, ci : SUBSET {"tb"}, cd : SUBSET {"ta"},
            sn : SUBSET {"tb"}, cn : SUBSET {"tb"}]}

\* the extern blocks of the family: F1 .. Fn, the handler I alone, I after F1 .. F3
Pools ==
  {[i \in 1..n |-> CASE i = 1 -> "F1" [] i = 2 -> "F2" [] OTHER -> "F3"] : n \in 0..3}
  \cup {<<"I">>, <<"F1", "F2", "F3", "I">>}

\* tasks ta, tb and tc on up to MaxPrio levels, interrupt I, an extern block
PoolModels ==
  {Model("pools",
         [r \in {} |-> [mutable |-> TRUE, ty |-> "u32"]],
         [t \in {"ta", "tb", "tc"} |->
            TaskDecl(CASE t = "ta" -> m.pa [] t = "tb" -> m.pb [] OTHER -> m.pc,
                     0, NoNames, NoNames, NoNames)],
         [i \in {"I"} |-> IntDecl(1, NoNames, {"ta", "tb", "tc"}, NoNames)],
         NoIdle, NoInit, m.pool) :
     m \in [pa : 1..MaxPrio, pb : 1..MaxPrio, pc : 1..MaxPrio, pool : Pools]}

\* tasks ta and tb of priority 1 with declared capacities (#[task(capacity = ..)],
\* a u8), spawned by init
CapacityModels ==
  {Model("capacities",
         [r \in {} |-> [mutable |-> TRUE, ty |-> "u32"]],
         [t \in {"ta", "tb"} |->
            TaskDecl(1, IF t = "ta" THEN m.capa ELSE m.capb, NoNames, NoNames, NoNames)],
         [i \in {} |-> IntDecl(1, NoNames, NoNames, NoNames)],
         NoIdle,
         [resources |-> NoNames, spawn |-> {"ta", "tb"}, schedule |-> NoNames],
         <<"F1">>) :
     m \in [capa : {1, 2, 100, 128, 200, 255}, capb : {1, 2, 100, 128, 200, 255}]}

\* the applications the macro is expanded on
Models ==
  Apps \cup {AppInsufficientFreeInterrupts, AppUsedFreeInterrupt, AppNoSend, AppNoSync,
             AppPriority0}
  \cup CapacityModels
  \cup ResourceModels \cup CallModels \cup PoolModels

\* the analysis before analyze::app has run
NoAnalysis ==
  [capacities |-> EmptyMap, dispatchers |-> EmptyMap, free_queues |-> EmptyMap,
   needs_send |-> {}, needs_sync |-> {}, ownerships |-> EmptyMap,
   ready_queues |-> EmptyMap,
   timer_queue |-> [capacity |-> 0, ceiling |-> 0, priority |-> 0, tasks |-> {}]]

\* the macro is invoked on an application; nothing runs
InitMacro ==
  /\ app \in Models
  /\ analysis = NoAnalysis
  /\ expansion = Expansion("input", NoError, {})
  /\ calc = NoCalc
  /\ stack = << >>
  /\ basepri = 0
  /\ primask = TRUE
  /\ pending = {}
  /\ enabled = {}
  /\ nvic_prio = EmptyMap
  /\ fq = EmptyMap
  /\ rq = EmptyMap
  /\ tq = << >>
  /\ tickint = FALSE
  /\ inputs = EmptyMap
  /\ scheduleds = EmptyMap
  /\ now = 0
  /\ dwt = FALSE
  /\ arrivals = EmptyMap
  /\ trace = << >>
  /\ enqlog = EmptyMap
  /\ runlog = EmptyMap

\* what the expansion leaves alone
target == <<app, calc, stack, basepri, primask, pending, enabled, nvic_prio, fq, rq, tq, tickint,
            inputs, scheduleds, now, dwt, arrivals, trace, enqlog, runlog>>

\* the stage after a step that returned err
Staged(err, stage) ==
  IF err = NoError THEN Expansion(stage, NoError, {}) ELSE Expansion("error", err, {})

\* variant: the error of syntax::App::parse is dropped
ParseAppContinues ==
  /\ expansion.stage = "input"
  /\ expansion' = Expansion("parsed", NoError, {})
  /\ UNCHANGED <<analysis, target>>

\* syntax::App::parse, or its error returned as the expansion
ParseApp ==
  /\ expansion.stage = "input"
  /\ expansion' = Staged(parse(app), "parsed")
  /\ UNCHANGED <<analysis, target>>

\* variant: check::app does not count the free interrupts
CheckAppUncounted ==
  /\ expansion.stage = "parsed"
  /\ expansion' = Staged(check_app_uncounted(app), "checked")
  /\ UNCHANGED <<analysis, target>>

\* variant: check::app lets a free interrupt be an interrupt handler
CheckAppReusing ==
  /\ expansion.stage = "parsed"
  /\ expansion' = Staged(check_app_reusing(app), "checked")
  /\ UNCHANGED <<analysis, target>>

\* check::app, or its error returned as the expansion
CheckApp ==
  /\ expansion.stage = "parsed"
  /\ expansion' = Staged(check_app(app), "checked")
  /\ UNCHANGED <<analysis, target>>

\* analyze::app; the accesses are iterated in the order of the hash maps of the
\* application, the tasks in an order sorted by priority
AnalyzeApp ==
  /\ expansion.stage = "checked"
  /\ \E build \in Builds :
       IF build = "debug" /\ AddOverflows(app)
       THEN /\ expansion' = Expansion("panic", Panic("attempt to add with overflow"), {})
            /\ analysis' = analysis
       ELSE /\ \E sites \in Orderings(access_sites(app)), tasks \in SortedTasks(app) :
                 analysis' = AnalysisWith(app, AccessSeq(sites), tasks)
            /\ expansion' = Expansion("analyzed", NoError, {})
  /\ UNCHANGED target

\* post_check::ownerships, or its error returned as the expansion
PostCheck ==
  /\ expansion.stage = "analyzed"
  /\ expansion' = Staged(post_check(app, analysis.ownerships), "post_checked")
  /\ UNCHANGED <<analysis, target>>

\* codegen::app: the generated code, of which the assertions are kept
Codegen ==
  /\ expansion.stage = "post_checked"
  /\ expansion' =
       IF \E c \in PowerOfTwoCapacities(analysis) : checked_next_power_of_two(c) = None
       THEN Expansion("panic", Panic("capacity.next_power_of_two()"), {})
       ELSE Expansion("generated", NoError, assertions(app, analysis))
  /\ UNCHANGED <<analysis, target>>

NextMacro == ParseApp \/ CheckApp \/ AnalyzeApp \/ PostCheck \/ Codegen

SpecMacro == InitMacro /\ [][NextMacro]_vars

(***************************************************************************)
(* Instant arithmetic and the timer heap on bounded inputs.                *)
(***************************************************************************)
\* the number of entries pushed on a timer heap
MaxHeap == 3

\* distances of the entries of a heap from the first instant of the heap
HeapOffsets == {0, 1, InstantMod \div 2 - 1, InstantMod \div 2}

\* the numbers of priority bits an ARMv7-M device can implement, and fewer
PrioBits == 1..8

\* the sequences of MaxHeap instants a heap is filled with
HeapInputs ==
  {[i \in 1..MaxHeap |-> Signed(base + offs[i])] :
     base \in Instants, offs \in [1..MaxHeap -> HeapOffsets]}

\* a computation is chosen: (a + d) - a, a.cmp(b), a.duration_since(b), or
\* the filling and draining of a timer heap
InitInstant ==
  /\ calc \in [op : {"add_sub"}, a : Instants, d : Durations, build : Builds,
               stage : {"input"}, sum : {Returned(0)}, diff : {Returned(0)}]
          \cup [op : {"cmp"}, a : Instants, b : Instants, stage : {"input"},
                result : {0}]
          \cup [op : {"duration_since"}, a : Instants, b : Instants, build : Builds,
                stage : {"input"}, result : {Returned(0)}]
          \cup [op : {"heap"}, input : HeapInputs, heap : {<< >>}, popped : {<< >>},
                order : {<< >>}]
          \cup {c \in [op : {"logical2hw"}, logical : 0..255, bits : PrioBits,
                        build : Builds, stage : {"input"}, result : {Returned(0)}] :
                  c.logical <= Pow2(c.bits)}
  /\ app = AppRamfunc
  /\ analysis = NoAnalysis
  /\ expansion = Expansion("input", NoError, {})
  /\ stack = << >>
  /\ basepri = 0
  /\ primask = TRUE
  /\ pending = {}
  /\ enabled = {}
  /\ nvic_prio = EmptyMap
  /\ fq = EmptyMap
  /\ rq = EmptyMap
  /\ tq = << >>
  /\ tickint = FALSE
  /\ inputs = EmptyMap
  /\ scheduleds = EmptyMap
  /\ now = 0
  /\ dwt = FALSE
  /\ arrivals = EmptyMap
  /\ trace = << >>
  /\ enqlog = EmptyMap
  /\ runlog = EmptyMap

\* what a computation leaves alone
machine == <<app, analysis, expansion, stack, basepri, primask, pending, enabled, nvic_prio,
             fq, rq, tq, tickint, inputs, scheduleds, now, dwt, arrivals, trace, enqlog,
             runlog>>

\* a + d
InstantPlus ==
  /\ calc.op = "add_sub" /\ calc.stage = "input"
  /\ calc' = [calc EXCEPT !.stage = "added", !.sum = add(calc.a, calc.d, calc.build)]
  /\ UNCHANGED machine

\* (a + d) - a: Sub<Instant> is duration_since
InstantMinus ==
  /\ calc.op = "add_sub" /\ calc.stage = "added"
  /\ calc' = [calc EXCEPT !.stage = "done",
                          !.diff = IF calc.sum.panic # "" THEN calc.sum
                                   ELSE duration_since(calc.sum.value, calc.a, calc.build)]
  /\ UNCHANGED machine

\* a.cmp(&b)
InstantCompare ==
  /\ calc.op = "cmp" /\ calc.stage = "input"
  /\ calc' = [calc EXCEPT !.stage = "done", !.result = InstantCmp(calc.a, calc.b)]
  /\ UNCHANGED machine

\* a.duration_since(b)
InstantDurationSince ==
  /\ calc.op = "duration_since" /\ calc.stage = "input"
  /\ calc' = [calc EXCEPT !.stage = "done",
                          !.result = duration_since(calc.a, calc.b, calc.build)]
  /\ UNCHANGED machine

\* the next entry is pushed on the heap
HeapEnqueue ==
  /\ calc.op = "heap" /\ calc.input # << >>
  /\ calc' = [calc EXCEPT !.input = Tail(@),
                          !.heap = HeapPush(@, [instant |-> Head(calc.input), task |-> "t",
                                                index |-> Len(calc.heap)])]
  /\ UNCHANGED machine

\* after the last push, the root is popped
HeapDequeue ==
  /\ calc.op = "heap" /\ calc.input = << >> /\ calc.heap # << >>
  /\ calc' = [calc EXCEPT !.heap = HeapPop(@),
                          !.popped = Append(@, calc.heap[1].instant),
                          !.order = Append(@, calc.heap[1].index)]
  /\ UNCHANGED machine

\* logical2hw(logical, nvic_prio_bits)
Logical2Hw ==
  /\ calc.op = "logical2hw" /\ calc.stage = "input"
  /\ calc' = [calc EXCEPT !.stage = "done",
                          !.result = logical2hwBuilt(calc.logical, calc.bits, calc.build)]
  /\ UNCHANGED machine

NextInstant ==
  \/ InstantPlus \/ InstantMinus \/ InstantCompare \/ InstantDurationSince
  \/ HeapEnqueue \/ HeapDequeue \/ Logical2Hw

SpecInstant == InitInstant /\ [][NextInstant]_vars



(***************************************************************************)
(* Properties.                                                             *)
(***************************************************************************)
\* the running context after the step
TopNext == stack'[Len(stack')]

\* the resources listed by the context that frame f executes
FrameResources(f) ==
  IF f.kind = "interrupt" THEN app.interrupts[f.ctx].resources
  ELSE IF f.kind = "dispatcher" /\ f.pc \notin {"deq", "arm", "ret"}
       THEN app.tasks[f.body].resources
  ELSE IF f.kind = "idle" THEN app.idle.resources
  ELSE {}

\* frame f executes the closure of a lock call on resource r
HoldsLock(f, r) ==
  \E k \in 1..Len(f.locks) :
    f.locks[k].cls = "res" /\ f.locks[k].name = r /\ f.locks[k].mode # "direct"

\* frame f is inside an access to resource r (closure of lock, or plain reference)
InAccess(f, r) ==
  \E k \in 1..Len(f.locks) : f.locks[k].cls = "res" /\ f.locks[k].name = r

\* C1: while a context executes the closure passed to R.lock, no context that
\* lists R has started (none is above it on the stack), and at most one
\* context is inside an access to R.
C1_LockMutualExclusion ==
  \A r \in DOMAIN app.resources :
    \A i, j \in 1..Len(stack) :
      i < j =>
        /\ HoldsLock(stack[i], r) => r \notin FrameResources(stack[j])
        /\ ~(InAccess(stack[i], r) /\ InAccess(stack[j], r))

\* C1 witness: the priority-1 task is inside R.lock while the interrupt that
\* spawns the other user of R is pending
C1_Witness ==
  /\ app.name = "lock"
  /\ HoldsLock(Top, "R")
  /\ "IA" \in pending

\* a frame is in the middle of an enqueue on the ready queue of level l
MidEnqueue(f, l) ==
  f.pc \in {"rq_write", "rq_store"} /\ TaskLevel(f.call.task) = l

\* a frame executes an enqueue on the ready queue of level l
InEnqueue(f, l) ==
  f.pc \in {"rq_load", "rq_write", "rq_store"} /\ TaskLevel(f.call.task) = l

\* a frame executes a dequeue on the free queue of task t
InFreeDequeue(f, t) == f.pc = "fq_deq" /\ f.call.task = t

\* C2: every ready queue has one producer at a time (spawn callers and the
\* SysTick handler), every free queue one consumer at a time: no producer is
\* preempted in the middle of an enqueue by another producer of the same queue.
C2_SingleProducerSingleConsumer ==
  \A i, j \in 1..Len(stack) :
    i < j =>
      /\ \A l \in Levels(app) : ~(MidEnqueue(stack[i], l) /\ InEnqueue(stack[j], l))
      /\ \A t \in DOMAIN app.tasks :
           ~(InFreeDequeue(stack[i], t) /\ InFreeDequeue(stack[j], t))

\* the step is the return of a Mutex::lock call of the running context
LockReturns ==
  /\ Len(stack') = Len(stack)
  /\ Len(TopNext.locks) = Len(Top.locks) - 1
  /\ InnerLock(Top).mode # "direct"

\* the step is the entry of a Mutex::lock call of the running context
LockEnters ==
  /\ Len(stack') = Len(stack)
  /\ Len(TopNext.locks) = Len(Top.locks) + 1
  /\ InnerLock(TopNext).mode # "direct"

\* C3 as stated: after lock returns, the cell and the BASEPRI register have the
\* values they had immediately before the call.
C3_RegisterRestored ==
  [][LockReturns =>
       /\ TopNext.cell = InnerLock(Top).current
       /\ basepri' = InnerLock(Top).pre_basepri]_vars

\* C3 amended: after lock returns, the cell and PRIMASK have their pre-call
\* values, and BASEPRI is its pre-call value or logical2hw(pre-call cell): the
\* latter whenever the call raised BASEPRI.
C3_CellRestored ==
  [][LockReturns =>
       /\ TopNext.cell = InnerLock(Top).current
       /\ primask' = InnerLock(Top).pre_primask
       /\ basepri' \in {InnerLock(Top).pre_basepri,
                        logical2hw(InnerLock(Top).current, NVIC_PRIO_BITS)}
       /\ InnerLock(Top).mode = "basepri" =>
            basepri' = logical2hw(InnerLock(Top).current, NVIC_PRIO_BITS)]_vars

\* C3 witness: the priority-1 task has returned from its locks; BASEPRI is the
\* encoding of priority 1, not the 0 it was before the first lock
C3_Witness ==
  /\ app.name = "lock"
  /\ Top.body = "t1" /\ Top.pc = "body" /\ Top.ip = 5
  /\ Top.cell = 1
  /\ Top.initial = 0
  /\ basepri = 224

\* C4: with tasks at priorities 1 and 3 on one mutable resource the ceiling
\* is 3; while the closure of the priority-1 task runs BASEPRI is the encoding
\* of 3 and the cell is 3; the access of the priority-3 task changes neither
\* BASEPRI, PRIMASK nor the cell; a lock entered with the cell >= the ceiling
\* changes none of them.
C4_CeilingThree ==
  /\ [](app.name = "lock" =>
          /\ Ownerships(app)["R"] = Shared(3)
          /\ (Top.body = "t1" /\ Top.locks # << >> /\ InnerLock(Top).name = "R") =>
               (basepri = (8 - 3) * 32 /\ Top.cell = 3 /\ ~primask))
  /\ [][(/\ app.name = "lock"
          /\ Top.body = "t3"
          /\ Len(stack') = Len(stack)
          /\ Len(TopNext.locks) = Len(Top.locks) + 1) =>
            (basepri' = basepri /\ primask' = primask /\ TopNext.cell = Top.cell)]_vars
  /\ [][(LockEnters /\ Top.cell >= InnerLock(TopNext).ceiling) =>
            (basepri' = basepri /\ primask' = primask /\ TopNext.cell = Top.cell)]_vars

\* C4 witness: the priority-3 task accesses R after the priority-1 task locked it
C4_Witness ==
  /\ app.name = "lock"
  /\ Top.body = "t3" /\ InAccess(Top, "R")
  /\ Top.cell = 3 /\ basepri = 0
  /\ runlog[1].msg.task = "t1"

\* the program is at rest: idle loops and no interrupt can be taken
AtRest == Len(stack) = 1 /\ Top.pc = "wfi" /\ Takeable = {}

\* the program has ended in the panic of an assertion of post_init
Aborted == Len(stack) = 1 /\ Top.pc = "panic"

\* C5: no context ever waits: unless the program is at rest in idle (or has
\* ended in a panic before the interrupts were enabled), the running context
\* or an exception entry can take a step (lock never blocks, a closure that
\* ends returns from its lock), and at rest no mask is left that would keep a
\* pending interrupt waiting.
C5_DeadlockFree ==
  IF AtRest
  THEN basepri = 0 /\ ~primask /\ Top.locks = << >>
  ELSE Aborted \/ ENABLED (Program \/ \E i \in AllInterrupts : Enter(i))

\* C5 witness: a context inside two nested locks
C5_Witness ==
  /\ Len(Top.locks) = 2
  /\ Top.locks[1].mode = "basepri"
  /\ Top.locks[2].mode = "primask"

\* the running context executes the dequeue on the free queue
FreeDequeueStep ==
  /\ Top.pc = "fq_deq"
  /\ Len(stack') = Len(stack)
  /\ TopNext.pc # "fq_deq"

\* the argument of the spawn / schedule statement the running context executes
SuppliedArgs == IF Stmt(Top).op = "schedule" THEN Stmt(Top).c ELSE SpawnArg(Top)

\* C6: spawn and schedule fail iff the free queue of the task is empty at the
\* dequeue; a failure returns Err with the supplied arguments and leaves the
\* free queues, the slot arrays, the ready queues, the timer queue and the
\* pending bits unchanged; a success removes exactly the head slot from the
\* free queue of the task.
C6_FailIffFreeQueueEmpty ==
  /\ [][FreeDequeueStep =>
          /\ (fq[Top.call.task] = << >>) <=> ~TopNext.call.ok
          /\ fq[Top.call.task] = << >> =>
               /\ TopNext.call.err = SuppliedArgs
               /\ TopNext.pc = "body" /\ TopNext.ip = Top.ip + 1
               /\ UNCHANGED <<fq, inputs, scheduleds, rq, tq, pending>>
          /\ fq[Top.call.task] # << >> =>
               /\ fq' = [fq EXCEPT ![Top.call.task] = Tail(@)]
               /\ TopNext.call.index = Head(fq[Top.call.task])]_vars
  /\ [][(Len(stack') = Len(stack) /\ Top.pc # "fq_deq" /\ TopNext.pc = "fq_deq") =>
          UNCHANGED <<fq, inputs, scheduleds, rq, tq, pending>>]_vars

\* C6 witness: the second schedule of A has failed on the empty free queue and
\* returned its argument
C6_Witness ==
  /\ app.name = "sched"
  /\ Top.kind = "idle" /\ Top.pc = "body" /\ Top.ip = 3
  /\ Top.call.kind = "schedule" /\ ~Top.call.ok /\ Top.call.err = 8
  /\ fq["A"] = << >>

\* C7: every entry enqueued on a ready queue is dequeued by the dispatcher of
\* its level and its task is run with the payload of the slot: when all
\* handlers and tasks have run to completion, no enqueued entry is left that
\* has not been run.
C7_ReadyEntriesRun ==
  AtRest => \A l \in DOMAIN enqlog : enqlog[l] = << >>

\* C8: within one dispatcher the tasks are run in the order in which their
\* entries were enqueued: the message run is always the oldest one enqueued
\* on the level that has not been run.
C8_DispatcherFifo ==
  \A l \in DOMAIN runlog : runlog[l].msg = runlog[l].oldest

\* the dispatcher of level q is pending and not masked by BASEPRI or PRIMASK
PendingUnmasked(q) ==
  /\ DispatcherOf(q) \in pending
  /\ DispatcherOf(q) \in enabled
  /\ ~primask
  /\ basepri = 0 \/ nvic_prio[DispatcherOf(q)] < basepri

\* C9: the dispatcher of a level takes no entry from its ready queue and
\* starts no task body while the dispatcher of a higher level is pending and
\* not masked.
C9_StrictPriority ==
  [][(/\ Top.kind = "dispatcher"
      /\ Len(stack') = Len(stack)
      /\ \/ Top.pc = "deq" /\ TopNext.pc = "arm"
         \/ Top.pc = "arm" /\ TopNext.pc = "body") =>
       \A q \in DOMAIN analysis.dispatchers :
         q > LevelOf(Top.ctx) => ~PendingUnmasked(q)]_vars

\* C9 witness: the task of level 2 runs while the dispatcher of level 1 is pending
C9_Witness ==
  /\ app.name = "capacity"
  /\ Top.kind = "dispatcher" /\ Top.pc = "body" /\ Top.body = "bar"
  /\ DispatcherOf(1) \in pending
  /\ rq[1].tail - rq[1].head = 4

\* the run of the capacity example: no interrupt arrives from outside
CapacityRun == app.name = "capacity" /\ arrivals["UART0"] = 0

\* p is a prefix of s
IsPrefix(p, s) == Len(p) <= Len(s) /\ p = SubSeq(s, 1, Len(p))

\* the trace of the capacity example as stated: bar before exit UART0
CapacityTraceStated ==
  <<<<"init", 0>>, <<"enter UART0", 0>>, <<"bar", 0>>, <<"exit UART0", 0>>,
    <<"foo", 0>>, <<"foo", 1>>, <<"foo", 2>>, <<"foo", 3>>, <<"idle", 0>>>>

\* the trace of the capacity example: bar after exit UART0
CapacityTrace ==
  <<<<"init", 0>>, <<"enter UART0", 0>>, <<"exit UART0", 0>>, <<"bar", 0>>,
    <<"foo", 0>>, <<"foo", 1>>, <<"foo", 2>>, <<"foo", 3>>, <<"idle", 0>>>>

\* no spawn of a context has failed
SpawnsSucceed == \A i \in 1..Len(stack) : stack[i].call.ok

\* C10 as stated: the capacity example prints enter UART0, bar, exit UART0,
\* foo(0), foo(1), foo(2), foo(3), idle, and all five spawns succeed.
C10_CapacityTraceStated ==
  CapacityRun =>
    /\ IsPrefix(trace, CapacityTraceStated)
    /\ AtRest => trace = CapacityTraceStated
    /\ SpawnsSucceed

\* C10 amended: the capacity example prints enter UART0, exit UART0, bar,
\* foo(0), foo(1), foo(2), foo(3), idle (bar has the priority of UART0 and
\* does not preempt it), and all five spawns succeed.
C10_CapacityTrace ==
  CapacityRun =>
    /\ IsPrefix(trace, CapacityTrace)
    /\ AtRest => trace = CapacityTrace
    /\ SpawnsSucceed

\* C10 witness: the capacity example has run to the end
C10_Witness ==
  /\ CapacityRun
  /\ AtRest
  /\ trace = CapacityTrace
  /\ \A t \in DOMAIN fq : Len(fq[t]) = analysis.capacities[t]

\* main is between interrupt::disable() and interrupt::enable()
Booting == stack[1].kind = "init" \/ stack[1].pc \in {"post_init", "enable"}

\* C11: between the interrupt-disable at entry and the interrupt-enable after
\* post-init only main executes (no handler, dispatcher or task), with the
\* interrupts masked and init at logical priority 255; no task has been
\* dispatched before init returned; in the ramfunc example bar runs before
\* foo, and both have run when the program is at rest.
C11_InitRunsAlone ==
  /\ Booting =>
       /\ Len(stack) = 1
       /\ primask
       /\ stack[1].kind = "init" => stack[1].cell = 255
       /\ \A l \in DOMAIN runlog : runlog[l].msg = NoRun
  /\ app.name = "ramfunc" =>
       /\ runlog[1].msg.task = "foo" => runlog[2].msg.task = "bar"
       /\ \A i \in 1..Len(stack) :
            (stack[i].kind = "dispatcher" /\ stack[i].pc = "body"
               /\ stack[i].body = "foo") =>
              /\ runlog[2].msg.task = "bar"
              /\ \A j \in 1..Len(stack) : stack[j].body # "bar"
       /\ AtRest => (trace = <<<<"foo", 0>>>> /\ runlog[2].msg.task = "bar")

\* C11 witness: init of ramfunc has returned with the dispatcher of bar
\* pending, and the interrupts are still disabled
C11_Witness ==
  /\ app.name = "ramfunc"
  /\ stack[1].pc = "enable"
  /\ DispatcherOf(2) \in pending
  /\ DispatcherOf(2) \in enabled
  /\ rq[2].tail = 1

(***************************************************************************)
(* Properties of the expansion.                                            *)
(***************************************************************************)
\* analyze::app has returned
Analyzed == expansion.stage \in {"analyzed", "post_checked", "generated"}

\* the priorities resource r is accessed from
AccessPriorities(a, r) == {s[2] : s \in {x \in access_sites(a) : x[3] = r}}

References(a, t) ==
  Cardinality({c \in spawn_calls(a) : c[3] = t})
  + Cardinality({c \in schedule_calls(a) : c[3] = t})

\* C13: the analysed capacity of every task is at least the number of spawn and
\* schedule references to the task.
C13_CapacityCoversReferences ==
  Analyzed =>
    \A t \in DOMAIN app.tasks : analysis.capacities[t] >= References(app, t)

\* the tasks that some context schedules
ScheduledTasks(a) == {c[3] : c \in schedule_calls(a)}

\* the priorities of the contexts that call schedule, init at priority initPrio
\* when it has one and left out when initPrio is None
SchedulerPriorities(a, initPrio) ==
  {IF c[1] = "init" THEN initPrio ELSE c[2] : c \in schedule_calls(a)} \ {None}

\* the timer queue of the analysis follows the rule, init counting as a
\* caller of priority initPrio
TimerQueueRule(initPrio) ==
  (Analyzed /\ ScheduledTasks(app) # {}) =>
    LET P == SetMax({app.tasks[t].priority : t \in ScheduledTasks(app)}, 0)
    IN /\ analysis.timer_queue.priority = P
       /\ analysis.timer_queue.priority >= 1
       /\ analysis.timer_queue.ceiling
            = SetMax(SchedulerPriorities(app, initPrio) \cup {P}, 0)

\* C14 as stated: the priority of the timer queue is the largest priority of
\* the scheduled tasks, and its ceiling is the largest of that priority and the
\* priorities of all the contexts that call schedule, init (priority 255)
\* included.
C14_TimerQueueStated == TimerQueueRule(255)

\* C14: the priority of the timer queue is the largest priority of the
\* scheduled tasks, at least 1, and its ceiling is the largest of that priority
\* and the priorities of the contexts other than init that call schedule.
C14_TimerQueue == TimerQueueRule(None)

\* C14 witness: init and the interrupt I, of priority 2, schedule tb, of
\* priority 1; the ceiling is 2
C14_Witness ==
  /\ Analyzed
  /\ app.name = "calls"
  /\ app.init.schedule = {"tb"}
  /\ app.interrupts["I"].schedule = {"tb"}
  /\ app.interrupts["I"].priority = 2
  /\ ScheduledTasks(app) = {"tb"}
  /\ app.tasks["tb"].priority = 1
  /\ analysis.timer_queue.priority = 1
  /\ analysis.timer_queue.ceiling = 2

\* the number of times task t is in the task list of the dispatcher of level l
Occurrences(l, t) ==
  Cardinality({k \in 1..Len(analysis.dispatchers[l].tasks) :
                 analysis.dispatchers[l].tasks[k] = t})

\* C15: the dispatcher map has one entry for every priority level of the tasks
\* and no other; distinct levels have distinct free interrupts of the declared
\* pool; every task is once in the task list of the dispatcher of its priority
\* and in no other task list.
C15_DispatcherAssignment ==
  Analyzed =>
    /\ DOMAIN analysis.dispatchers = {app.tasks[t].priority : t \in DOMAIN app.tasks}
    /\ \A l \in DOMAIN analysis.dispatchers :
         analysis.dispatchers[l].interrupt \in SeqToSet(app.free_interrupts)
    /\ \A l, m \in DOMAIN analysis.dispatchers :
         l # m => analysis.dispatchers[l].interrupt # analysis.dispatchers[m].interrupt
    /\ \A t \in DOMAIN app.tasks :
         \A l \in DOMAIN analysis.dispatchers :
           Occurrences(l, t) = (IF l = app.tasks[t].priority THEN 1 ELSE 0)

\* C15 witness: ta and tc at priority 1, tb at priority 2, dispatched by F1 and F2
C15_Witness ==
  /\ Analyzed
  /\ app.name = "pools"
  /\ DOMAIN analysis.dispatchers = {1, 2}
  /\ SeqToSet(analysis.dispatchers[1].tasks) = {"ta", "tc"}
  /\ analysis.dispatchers[2].tasks = <<"tb">>
  /\ analysis.dispatchers[1].interrupt = "F1"
  /\ analysis.dispatchers[2].interrupt = "F2"

\* the priority levels of the tasks outnumber the free interrupts
Insufficient ==
  Cardinality({app.tasks[t].priority : t \in DOMAIN app.tasks}) > Len(app.free_interrupts)

\* a free interrupt is used as an interrupt handler
Reused == \E i \in DOMAIN app.interrupts : i \in SeqToSet(app.free_interrupts)

\* the compile error that asks for n free interrupts
Required(n) == [msg |-> "free interrupt (extern { .. }) is required", n |-> n]

\* C16: an application whose tasks are on N priority levels and that declares
\* fewer than N free interrupts never gets to the analysis or to generated
\* code: the check that follows the parse returns a compile error, the one
\* that N free interrupts are required when no free interrupt is used as a
\* handler; no analysed dispatcher is left without interrupt.
C16_InsufficientRejected ==
  /\ [](Insufficient =>
          /\ expansion.stage \in {"input", "parsed", "error"}
          /\ analysis = NoAnalysis
          /\ expansion.assertions = {})
  /\ [](Analyzed =>
          \A l \in DOMAIN analysis.dispatchers :
            analysis.dispatchers[l].interrupt # NoInterrupt)
  /\ [][(Insufficient /\ expansion.stage = "parsed") =>
          /\ expansion'.stage = "error"
          /\ expansion'.error # NoError
          /\ ~Reused =>
               expansion' = Expansion("error",
                                      Required(Cardinality({app.tasks[t].priority :
                                                              t \in DOMAIN app.tasks})),
                                      {})]_vars

\* C16 witness: tests/cfail/insufficient-free-interrupts.rs is rejected, 1 free
\* interrupt is required
C16_Witness ==
  /\ app = AppInsufficientFreeInterrupts
  /\ Insufficient
  /\ expansion = Expansion("error", Required(1), {})
  /\ analysis = NoAnalysis

\* the compile error on a free interrupt that is used as a handler
UsedAsHandler ==
  [msg |-> "free interrupts (extern { .. }) cannot be used as interrupt handlers", n |-> 0]

\* C17: an application in which a name of the extern block is also the name of
\* an #[interrupt] handler is rejected by the check with a compile error (the
\* one on free interrupts used as handlers, when the free interrupts are
\* enough for the tasks); it is never analysed and no code is generated for it.
C17_UsedFreeInterruptRejected ==
  /\ [](Reused =>
          /\ expansion.stage \in {"input", "parsed", "error"}
          /\ analysis = NoAnalysis
          /\ expansion.assertions = {})
  /\ [][(Reused /\ expansion.stage = "parsed") =>
          /\ expansion'.stage = "error"
          /\ expansion'.error # NoError
          /\ ~Insufficient => expansion' = Expansion("error", UsedAsHandler, {})]_vars

\* C17 witness: tests/cfail/used-free-interrupt.rs is rejected
C17_Witness ==
  /\ app = AppUsedFreeInterrupt
  /\ Reused
  /\ expansion = Expansion("error", UsedAsHandler, {})
  /\ analysis = NoAnalysis

\* task t is spawned, by contexts of its own priority only, and init neither
\* spawns nor schedules it
SpawnedAtOwnPriority(a, t) ==
  /\ \E c \in spawn_calls(a) : c[3] = t
  /\ \A c \in spawn_calls(a) : c[3] = t => c[2] = a.tasks[t].priority
  /\ t \notin a.init.spawn \cup a.init.schedule

\* C18: a task that is spawned only from contexts of its own priority, and that
\* init neither spawns nor schedules, is not in needs_send, and no assert_send
\* is generated for it.
C18_NoSendAtSamePriority ==
  Analyzed =>
    \A t \in DOMAIN app.tasks :
      SpawnedAtOwnPriority(app, t) =>
        /\ t \notin analysis.needs_send
        /\ <<"assert_send", t>> \notin expansion.assertions

\* C18 witness: tests/cpass/no-send.rs is expanded without assert_send for bar
C18_Witness ==
  /\ app = AppNoSend
  /\ expansion.stage = "generated"
  /\ SpawnedAtOwnPriority(app, "bar")
  /\ analysis.needs_send = {}
  /\ expansion.assertions = {}

\* resource r is read-only and accessed from two or more distinct priorities
SharedReadOnly(a, r) ==
  /\ ~a.resources[r].mutable
  /\ Cardinality(AccessPriorities(a, r)) >= 2

\* the assert_sync items of the generated code
SyncAssertions == {x \in expansion.assertions : x[1] = "assert_sync"}

\* C19 as stated: the type of a read-only resource is in needs_sync, and has an
\* assert_sync in the generated code, if and only if that resource is accessed
\* from two or more distinct priorities.
C19_NeedsSyncStated ==
  Analyzed =>
    \A r \in DOMAIN app.resources :
      ~app.resources[r].mutable =>
        /\ app.resources[r].ty \in analysis.needs_sync <=> SharedReadOnly(app, r)
        /\ expansion.stage = "generated" =>
             (<<"assert_sync", app.resources[r].ty>> \in expansion.assertions
                <=> SharedReadOnly(app, r))

\* C19: a type is in needs_sync, and has an assert_sync in the generated code,
\* if and only if it is the type of some read-only resource that is accessed
\* from two or more distinct priorities; accesses from one priority, by however
\* many contexts, and accesses to mutable resources require no Sync.
C19_NeedsSync ==
  Analyzed =>
    LET types == {app.resources[r].ty :
                    r \in {x \in DOMAIN app.resources : SharedReadOnly(app, x)}}
    IN /\ analysis.needs_sync = types
       /\ expansion.stage = "generated" =>
            SyncAssertions = {<<"assert_sync", ty>> : ty \in types}

\* C19 witness: X is read at priorities 1 and 2, Y, of the same type, at
\* priority 1 only; Sync is asserted for the type
C19_Witness ==
  /\ expansion.stage = "generated"
  /\ app.name = "resources"
  /\ AccessPriorities(app, "X") = {1, 2}
  /\ AccessPriorities(app, "Y") = {1}
  /\ AccessPriorities(app, "Z") = {1, 2}
  /\ analysis.needs_sync = {"T"}
  /\ expansion.assertions = {<<"assert_sync", "T">>}

\* the spawn and schedule call sites whose caller has another priority than
\* the task it names; init (no priority of its own in the analysis) is such a
\* caller for every task
CrossingCalls(a) ==
  {c \in spawn_calls(a) \cup schedule_calls(a) : c[2] # a.tasks[c[3]].priority}

\* C20: for every spawn call site and every schedule call site whose caller has
\* a priority other than the priority of the target task, the target task is
\* in needs_send.
C20_CrossingNeedsSend ==
  Analyzed =>
    \A c \in CrossingCalls(app) : c[3] \in analysis.needs_send

(***************************************************************************)
(* Properties of Instant and of the timer heap.                            *)
(***************************************************************************)
\* the signed wrapping difference a - b
WrappingDiff(a, b) ==
  ((a - b + InstantMod \div 2) % InstantMod) - InstantMod \div 2

\* C22: for every instant a and every duration d below half the range,
\* (a + d) - a returns d, also when a + d wraps past the largest instant; and
\* cmp(a, b) is Less, Equal or Greater as the signed wrapping difference a - b
\* is negative, zero or positive.
C22_WrapSafeTime ==
  /\ (calc.op = "add_sub" /\ calc.stage = "done" /\ calc.d < InstantMod \div 2) =>
       calc.diff = Returned(calc.d)
  /\ (calc.op = "cmp" /\ calc.stage = "done") =>
       /\ calc.result = 0 - 1 <=> WrappingDiff(calc.a, calc.b) < 0
       /\ calc.result = 0 <=> WrappingDiff(calc.a, calc.b) = 0
       /\ calc.result = 1 <=> WrappingDiff(calc.a, calc.b) > 0

\* C23: a.duration_since(b) panics if and only if cmp(b, a) is Greater, and
\* otherwise returns the wrapping difference a - b as an unsigned value.
C23_DurationSincePanics ==
  (calc.op = "duration_since" /\ calc.stage = "done") =>
    /\ calc.result.panic # "" <=> InstantCmp(calc.b, calc.a) = 1
    /\ calc.result.panic = "" => calc.result.value = (calc.a - calc.b) % InstantMod


\* the instants of a heap computation: still to be pushed, in the heap, popped
HeapInstants ==
  {calc.input[i] : i \in DOMAIN calc.input}
    \cup {calc.heap[i].instant : i \in DOMAIN calc.heap}
    \cup {calc.popped[i] : i \in DOMAIN calc.popped}

\* the instants are live at the same time: all of them lie less than half the
\* range of Instant after the earliest of them
LiveTogether(S) ==
  \E base \in S : \A x \in S : WrappingDiff(x, base) >= 0

\* C24: when the instants pushed on the timer heap are live at the same time,
\* the instants popped from it are non-decreasing under Instant::cmp
C24_HeapOrder ==
  (calc.op = "heap" /\ LiveTogether(HeapInstants)) =>
    \A i, j \in DOMAIN calc.popped :
      i < j => WrappingDiff(calc.popped[i], calc.popped[j]) <= 0

\* a heap of distinct instants on both sides of the wrap was drained
C24_Witness ==
  /\ calc.op = "heap" /\ Len(calc.popped) = MaxHeap
  /\ LiveTogether(HeapInstants)
  /\ Cardinality(HeapInstants) = MaxHeap
  /\ calc.popped[1] > 0 /\ calc.popped[MaxHeap] < 0


\* a handler of the application has a priority the device does not support
TooLarge(a) ==
  \/ \E i \in DOMAIN a.interrupts : a.interrupts[i].priority > Pow2(NVIC_PRIO_BITS)
  \/ \E t \in DOMAIN a.tasks : a.tasks[t].priority > Pow2(NVIC_PRIO_BITS)

\* C25: an application with a priority above 1 << NVIC_PRIO_BITS is rejected
\* when it is compiled: none of the generated code runs and the body of init
\* never executes
C25_PriorityRejected ==
  TooLarge(app) => (Top.pc = "pre_init" /\ trace = << >>)


\* the stages of the expansion in the order of the pipeline
StageRank(stage) ==
  CASE stage = "input" -> 0
    [] stage = "parsed" -> 1
    [] stage = "checked" -> 2
    [] stage = "analyzed" -> 3
    [] stage = "post_checked" -> 4
    [] stage = "generated" -> 5
    [] OTHER -> 6

\* the error of the stage that runs next, if it has one
StageError ==
  CASE expansion.stage = "input" -> parse(app)
    [] expansion.stage = "parsed" -> check_app(app)
    [] expansion.stage = "analyzed" -> post_check(app, analysis.ownerships)
    [] OTHER -> NoError

\* a step of the pipeline: the next stage runs, and either it fails and the
\* expansion is its compile error alone, or the expansion moves one stage on;
\* the analysis is computed by the third stage only and code is emitted by
\* the fifth only
PipelineStep ==
  /\ expansion.stage \notin {"error", "generated", "panic"}
  /\ IF StageError # NoError
     THEN expansion' = Expansion("error", StageError, {}) /\ analysis' = analysis
     ELSE \/ /\ StageRank(expansion'.stage) = StageRank(expansion.stage) + 1
             /\ expansion'.error = NoError
          \/ /\ expansion'.stage = "panic"
             /\ expansion.stage \in {"checked", "post_checked"}
             /\ analysis' = analysis
  /\ analysis' # analysis => expansion.stage = "checked"
  /\ expansion'.stage # "generated" => expansion'.assertions = {}

\* C27: the macro runs parse, check, analysis, post-check and code generation
\* in that order and stops at the first stage that fails: the expansion is
\* then the compile error alone, no code is generated, and the analysis has
\* not run on an application that failed parse or check
C27_PipelineStopsAtFirstError ==
  /\ [](/\ expansion.stage = "error" => expansion.assertions = {}
        /\ expansion.stage = "generated" =>
             /\ parse(app) = NoError
             /\ check_app(app) = NoError
             /\ post_check(app, analysis.ownerships) = NoError
        /\ analysis # NoAnalysis => parse(app) = NoError /\ check_app(app) = NoError)
  /\ [][PipelineStep]_vars

\* parse has failed: the expansion is its error, the analysis has not run
C27_Witness ==
  /\ expansion.stage = "error"
  /\ expansion.error = parse(app)
  /\ parse(app) # NoError
  /\ analysis = NoAnalysis


\* the running context calls spawn
SpawnCall ==
  /\ Len(stack) > 0 /\ AtSpawn
  /\ Len(stack') = Len(stack) /\ TopNext.pc = "fq_deq"

\* spawn writes the slot it has reserved
SpawnSlotWrite ==
  /\ Len(stack) > 0 /\ Top.pc = "write" /\ Top.call.kind = "spawn"
  /\ Len(stack') = Len(stack) /\ TopNext.pc = "rq_load"

\* the slot receives the arguments and the instant that spawn was given
SlotWritten ==
  SpawnSlotWrite =>
    /\ inputs'[Top.call.task][Top.call.index] = Top.call.arg
    /\ scheduleds'[Top.call.task][Top.call.index] = Top.call.instant

\* the start time of the calling context: the current instant in idle, else
\* the instant that the context was given when it started
Baseline(f) == IF f.kind = "idle" THEN now ELSE f.baseline

\* C30 as stated: spawn writes the arguments and the instant of the call of
\* spawn into the reserved slot, whatever the calling context
C30_SpawnWritesNow ==
  [][/\ SpawnCall => TopNext.call.instant = now
     /\ SlotWritten]_vars

\* C30: spawn writes the arguments and the baseline of the caller into the
\* reserved slot: the current instant when the caller is idle, else the start
\* time of the calling handler or task (zero in init), which is never later
\* than the instant of the call
C30_SpawnWritesBaseline ==
  [][/\ SpawnCall =>
          /\ TopNext.call.instant = Baseline(Top)
          /\ InstantCmp(TopNext.call.instant, now) <= 0
     /\ SlotWritten]_vars

\* an interrupt handler spawns after the counter has moved on since its entry
C30_Witness ==
  /\ Len(stack) > 1
  /\ Top.kind = "interrupt" /\ Top.pc = "rq_load" /\ Top.call.kind = "spawn"
  /\ scheduleds[Top.call.task][Top.call.index] = Top.baseline
  /\ Top.baseline # now


\* the SysTick handler takes the head of the timer queue
TimerPopStep ==
  /\ Len(stack) > 0 /\ Top.pc = "st_peek"
  /\ Len(stack') = Len(stack) /\ TopNext.pc = "route"

\* the dispatcher starts the body of a task
TaskStartStep ==
  /\ Len(stack) > 0 /\ Top.pc = "arm"
  /\ Len(stack') = Len(stack) /\ TopNext.pc = "body"

\* task t prints the current instant and then schedules itself one period later
Periodic(t) ==
  /\ Len(app.prog[t]) = 2
  /\ app.prog[t][1] = StPrint(t, 0 - 2)
  /\ app.prog[t][2].op = "schedule" /\ app.prog[t][2].a = t

\* the instants the invocations of task t have observed
Observed(t) == SelectSeq(trace, LAMBDA e : e[1] = t)

\* C26: the SysTick handler takes an entry off the timer queue only when its
\* instant is not later than now, no task starts before the instant it was
\* scheduled for, and the instants observed by successive invocations of a
\* task that schedules itself one period after now are at least one period apart
C26_NeverEarly ==
  /\ [](\A t \in DOMAIN app.tasks :
          Periodic(t) =>
            \A k \in 1..(Len(Observed(t)) - 1) :
              WrappingDiff(Observed(t)[k + 1][2], Observed(t)[k][2]) >= app.prog[t][2].b)
  /\ [][/\ TimerPopStep => InstantCmp(tq[1].instant, now) <= 0
        /\ TaskStartStep =>
             InstantCmp(scheduleds[Top.call.task][Top.call.index], now) <= 0]_vars

\* the periodic task has run twice, the second time in the instant it was
\* scheduled for
C26_Witness ==
  /\ \E t \in DOMAIN app.tasks :
       /\ Periodic(t) /\ app.prog[t][2].b > 0
       /\ Len(Observed(t)) = 2
       /\ Observed(t)[2][2] = scheduleds[t][0]


\* the entries of the ready queue of level l, oldest first
ReadyEntries(l) ==
  [k \in 1..(rq[l].tail - rq[l].head) |->
     rq[l].buf[(rq[l].head + k - 1) % RqCap(rq[l])]]

\* an instance of task t is outstanding apart from the running context: it
\* waits in the timer queue or in the ready queue, or a context below the
\* running one is in the middle of a spawn, a schedule, a routing or a
\* dispatch of t
OtherInstance(t) ==
  \/ \E k \in DOMAIN tq : tq[k].task = t
  \/ \E k \in DOMAIN ReadyEntries(TaskLevel(t)) : ReadyEntries(TaskLevel(t))[k].task = t
  \/ \E k \in 1..(Len(stack) - 1) :
       stack[k].call.task = t /\ stack[k].pc \notin {"body", "wfi", "ret", "deq"}

\* the body of a task of capacity 1 calls spawn or schedule on its own task
\* and is at the dequeue of the free queue
SelfCall ==
  /\ Len(stack) > 0
  /\ Top.kind = "dispatcher" /\ Top.pc = "fq_deq"
  /\ Top.call.task = Top.body
  /\ analysis.capacities[Top.body] = 1

\* C29: the dispatcher reads the input and the scheduled instant out of the
\* slot and gives the slot back to the free queue before it calls the task,
\* so a task of capacity 1 that spawns or schedules itself from its body finds
\* its slot free when no other instance of it is outstanding
C29_SlotFreeBeforeBody ==
  /\ []((SelfCall /\ ~OtherInstance(Top.body)) => fq[Top.body] # << >>)
  /\ [][TaskStartStep =>
          /\ fq'[Top.call.task] = Append(fq[Top.call.task], Top.call.index)
          /\ TopNext.input = inputs[Top.call.task][Top.call.index]
          /\ TopNext.baseline = scheduleds[Top.call.task][Top.call.index]]_vars

\* the task of capacity 1 that spawns itself has run its second instance, and
\* the task of capacity 1 that schedules itself has got its slot again
C29_Witness ==
  /\ Len(stack) > 0
  /\ Top.kind = "dispatcher" /\ Top.pc = "write" /\ Top.call.kind = "schedule"
  /\ Top.call.task = Top.body
  /\ analysis.capacities[Top.body] = 1
  /\ \E l \in DOMAIN runlog :
       /\ runlog[l].msg.task # "" /\ runlog[l].msg.task # Top.body
       /\ analysis.capacities[runlog[l].msg.task] = 1
       /\ app.prog[runlog[l].msg.task][1].op = "spawn_less"
       /\ runlog[l].msg.input = 0


\* pre_init has filled the free queues
Populated == Len(stack) > 0 /\ stack[1].pc # "pre_init"

\* the contexts that hold slot i of task t in flight: a spawner or scheduler
\* between the dequeue of the free queue and its enqueue, the SysTick handler
\* between the pop of the timer queue and the enqueue on the ready queue, a
\* dispatcher between the dequeue of the ready queue and the enqueue on the
\* free queue
Holders(t, i) ==
  {k \in 1..Len(stack) :
     /\ stack[k].call.task = t /\ stack[k].call.index = i
     /\ \/ stack[k].call.kind \in {"spawn", "schedule"}
           /\ stack[k].pc \in {"write", "rq_load", "rq_write", "rq_store", "tq_enq"}
        \/ stack[k].call.kind = "route"
           /\ stack[k].pc \in {"route", "rq_load", "rq_write", "rq_store"}
        \/ stack[k].call.kind = "dispatch" /\ stack[k].pc = "arm"}

\* the number of places slot i of task t is in
Places(t, i) ==
  Cardinality({k \in DOMAIN fq[t] : fq[t][k] = i})
  + Cardinality({k \in DOMAIN ReadyEntries(TaskLevel(t)) :
                   ReadyEntries(TaskLevel(t))[k] = [task |-> t, index |-> i]})
  + Cardinality({k \in DOMAIN tq : tq[k].task = t /\ tq[k].index = i})
  + Cardinality(Holders(t, i))

\* C21: a free queue holds at most the capacity of its task, a ready queue at
\* most the capacity of its dispatcher, the timer queue at most the capacity
\* the analysis gave it, and every enqueue finds a place: the ready queue has
\* room in its buffer, the free queue and the timer queue are below capacity
C21_NoEnqueueOnFull ==
  /\ [](Populated =>
          /\ \A t \in DOMAIN fq : Len(fq[t]) <= analysis.capacities[t]
          /\ \A l \in DOMAIN rq :
               /\ rq[l].tail - rq[l].head <= analysis.dispatchers[l].capacity
               /\ analysis.dispatchers[l].capacity <= RqCap(rq[l])
          /\ Len(tq) <= analysis.timer_queue.capacity)
  /\ [][/\ (Len(stack) > 0 /\ Top.pc = "rq_write" /\ rq' # rq) =>
             rq[TaskLevel(Top.call.task)].tail - rq[TaskLevel(Top.call.task)].head
               < RqCap(rq[TaskLevel(Top.call.task)])
        /\ TaskStartStep =>
             Len(fq[Top.call.task]) < analysis.capacities[Top.call.task]
        /\ (Len(stack) > 0 /\ Top.pc = "tq_enq" /\ tq' # tq) =>
             Len(tq) < analysis.timer_queue.capacity]_vars

\* a ready queue is full while the free queue of its task is empty
C21_Witness ==
  /\ Populated
  /\ \E l \in DOMAIN rq :
       /\ analysis.dispatchers[l].capacity > 1
       /\ rq[l].tail - rq[l].head = analysis.dispatchers[l].capacity
       /\ \A k \in DOMAIN analysis.dispatchers[l].tasks :
            fq[analysis.dispatchers[l].tasks[k]] = << >>

\* C28: once pre_init has filled the free queues, every slot of every task is
\* in exactly one place: the free queue of the task, the ready queue of its
\* level, the timer queue, or in flight with one spawner, scheduler or
\* dispatcher
C28_SlotConservation ==
  Populated =>
    \A t \in DOMAIN app.tasks :
      \A i \in 0..(analysis.capacities[t] - 1) : Places(t, i) = 1


\* main calls init: pre_init is done and the body of init starts
InitStartStep ==
  /\ Len(stack) = 1 /\ Top.pc = "pre_init"
  /\ Len(stack') = 1 /\ TopNext.kind = "init" /\ TopNext.pc = "body"

\* C31: when the body of init starts, the free queue of every task holds the
\* indices 0 .. capacity - 1 in ascending order, every ready queue and the
\* timer queue are empty, the cycle counter is stopped at 0 and the interrupts
\* are disabled; the counter stays stopped at 0 while init runs
C31_PreInitState ==
  /\ []((/\ Len(stack) > 0 /\ stack[1].kind = "init"
         /\ stack[1].pc \notin {"post_init", "enable", "panic"}) =>
          (~dwt /\ now = 0 /\ primask))
  /\ [][InitStartStep =>
          /\ primask'
          /\ DOMAIN fq' = DOMAIN app.tasks
          /\ \A t \in DOMAIN app.tasks :
               /\ Len(fq'[t]) = analysis.capacities[t]
               /\ \A i \in 1..analysis.capacities[t] : fq'[t][i] = i - 1
          /\ \A l \in DOMAIN rq' : rq'[l].head = rq'[l].tail
          /\ DOMAIN rq' = DOMAIN analysis.dispatchers
          /\ tq' = << >>
          /\ ~dwt' /\ now' = 0
          /\ TopNext.ip = 1]_vars

\* init starts with the four slots of a task in its free queue
C31_Witness ==
  /\ Len(stack) = 1 /\ Top.kind = "init" /\ Top.pc = "body" /\ Top.ip = 1
  /\ \E t \in DOMAIN app.tasks : fq[t] = <<0, 1, 2, 3>>


\* the priorities of the contexts other than init whose list (spawn or
\* schedule, selected by sel) names a task of the set ts
CallerPriorities(a, sel(_), ts) ==
  (IF a.idle.present /\ sel(a.idle) \cap ts # {} THEN {0} ELSE {})
  \cup {a.interrupts[i].priority : i \in {j \in DOMAIN a.interrupts :
                                            sel(a.interrupts[j]) \cap ts # {}}}
  \cup {a.tasks[s].priority : s \in {u \in DOMAIN a.tasks : sel(a.tasks[u]) \cap ts # {}}}

SpawnList(c) == c.spawn

CallList(c) == c.spawn \cup c.schedule

\* C32: the ceiling of the free queue of a task is the highest priority of the
\* contexts other than init that spawn or schedule it, the ceiling of the
\* ready queue of a level is the highest priority of the contexts other than
\* init that spawn a task of the level, and both are 0 without such a context
C32_QueueCeilings ==
  Analyzed =>
    /\ DOMAIN analysis.free_queues = DOMAIN app.tasks
    /\ \A t \in DOMAIN app.tasks :
         analysis.free_queues[t] = SetMax(CallerPriorities(app, CallList, {t}), 0)
    /\ DOMAIN analysis.ready_queues = Levels(app)
    /\ \A q \in Levels(app) :
         analysis.ready_queues[q] =
           SetMax(CallerPriorities(app, SpawnList,
                                   {t \in DOMAIN app.tasks : app.tasks[t].priority = q}), 0)

\* init spawns a task that an interrupt of priority 2 schedules and nobody
\* else spawns: the free-queue ceiling is 2, the ready-queue ceiling is 0
C32_Witness ==
  /\ Analyzed
  /\ \E t \in DOMAIN app.tasks :
       /\ t \in app.init.spawn
       /\ analysis.free_queues[t] = 2
       /\ analysis.ready_queues[app.tasks[t].priority] = 0
       /\ \E i \in DOMAIN app.interrupts :
            app.interrupts[i].priority = 2 /\ t \in app.interrupts[i].schedule


\* C33: the capacity of the timer queue is the sum of the capacities of the
\* tasks that some context schedules, each task counted once, and 0 when no
\* task is scheduled
C33_TimerQueueCapacity ==
  Analyzed =>
    analysis.timer_queue.capacity = SetSum(ScheduledTasks(app), analysis.capacities)


\* the arithmetic sum of the analysed capacities of the tasks of a level
LevelSum(level) ==
  SetSum({t \in DOMAIN app.tasks : app.tasks[t].priority = level}, analysis.capacities)

\* C34: the macro never aborts in the capacity arithmetic; the capacity of the
\* dispatcher of every level is the arithmetic sum of the analysed capacities
\* of the tasks of the level, and the storage capacity of the ready queue, the
\* next power of two, is at least that sum.
C34_DispatcherCapacity ==
  /\ expansion.stage # "panic"
  /\ Analyzed =>
       \A l \in DOMAIN analysis.dispatchers :
         /\ analysis.dispatchers[l].capacity = LevelSum(l)
         /\ mk_typenum_capacity(analysis.dispatchers[l].capacity) >= LevelSum(l)


\* the logical priorities of a device of B priority bits that fit the u8
Logicals(B) == {q \in 1..255 : q <= Pow2(B)}

\* C35: logical2hw returns for every priority 0 .. 1 << B; on 1 .. 1 << B a
\* higher logical priority gives a strictly lower hardware value (so the
\* conversion is injective) whose low 8 - B bits are zero; 1 << B gives 0, and
\* 0 gives 0, the BASEPRI value that masks nothing.
C35_Logical2Hw ==
  (calc.op = "logical2hw" /\ calc.stage = "done") =>
    /\ calc.result.panic = ""
    /\ calc.logical \in Logicals(calc.bits) =>
         /\ calc.result.value % Pow2(8 - calc.bits) = 0
         /\ \A q \in Logicals(calc.bits) :
              q > calc.logical =>
                /\ logical2hwBuilt(q, calc.bits, calc.build).panic = ""
                /\ logical2hwBuilt(q, calc.bits, calc.build).value < calc.result.value
    /\ calc.logical = Pow2(calc.bits) => calc.result.value = 0
    /\ calc.logical = 0 => calc.result.value = 0


\* C36: of two entries of equal instants, the one enqueued first is popped
\* from the timer queue first (order holds the insertion numbers of the
\* entries in the order they were popped).
C36_TiesByInsertionOrder ==
  calc.op = "heap" =>
    \A i, j \in DOMAIN calc.popped :
      (i < j /\ calc.popped[i] = calc.popped[j]) => calc.order[i] < calc.order[j]


\* the dispatcher of level l is pending, or it is active, or a producer has
\* enqueued on the ready queue of the level and is about to pend it
Served(l) ==
  \/ DispatcherOf(l) \in pending
  \/ \E k \in 1..Len(stack) :
       stack[k].kind = "dispatcher" /\ stack[k].ctx = DispatcherOf(l)
  \/ \E k \in 1..Len(stack) :
       /\ stack[k].pc = "pend" /\ stack[k].call.kind \in {"spawn", "route"}
       /\ TaskLevel(stack[k].call.task) = l

\* a step of the running context that is neither an entry nor a return
SameFrame == Len(stack) > 0 /\ Len(stack') = Len(stack)

\* spawn and the routing of sys_tick reach their pend only from the store of
\* the enqueue, and pend the dispatcher of the level they enqueued on
EnqueueThenPend ==
  /\ (SameFrame /\ TopNext.pc = "pend" /\ Top.pc # "pend") =>
       /\ Top.pc = "rq_store"
       /\ enqlog'[TaskLevel(Top.call.task)] # enqlog[TaskLevel(Top.call.task)]
  /\ (SameFrame /\ Top.pc = "pend" /\ TopNext.pc # "pend") =>
       DispatcherOf(TaskLevel(Top.call.task)) \in pending'

\* a dispatcher leaves its loop only when the dequeue found the queue empty
ExitOnEmpty ==
  (SameFrame /\ Top.kind = "dispatcher" /\ TopNext.pc = "ret" /\ Top.pc # "ret") =>
    /\ Top.pc = "deq"
    /\ rq[LevelOf(Top.ctx)].head = rq[LevelOf(Top.ctx)].tail

\* C37: no message is stranded: whenever the ready queue of a level is not
\* empty, the dispatcher of the level is pending or active, or a producer is
\* between its enqueue and its pend; spawn and the routing of sys_tick
\* enqueue before they pend, and a dispatcher exits only after a dequeue
\* that returned nothing.
C37_NoStrandedMessage ==
  /\ [](\A l \in DOMAIN rq : rq[l].head # rq[l].tail => Served(l))
  /\ [][EnqueueThenPend /\ ExitOnEmpty]_vars

\* C37 witness: a message waits in a ready queue while its producer, a spawn, is
\* about to pend a dispatcher that is neither pending nor active
C37_Witness ==
  /\ Len(stack) > 0 /\ Top.pc = "pend" /\ Top.call.kind = "spawn"
  /\ rq[TaskLevel(Top.call.task)].head # rq[TaskLevel(Top.call.task)].tail
  /\ DispatcherOf(TaskLevel(Top.call.task)) \notin pending
  /\ \A k \in 1..Len(stack) : stack[k].kind # "dispatcher"


\* the lock calls of frame f that went through Mutex::lock, outermost first
MutexCalls(f) == SelectSeq(f.locks, LAMBDA rec : rec.mode # "direct")

\* the cell of a frame that executes idle or a handler is at least its base
\* priority, and the cell of any frame is at least the ceiling of every lock
\* call whose closure it executes
CellCoversCeilings(f) ==
  /\ f.kind \notin {"boot", "init"} => f.cell >= BasePriority(f)
  /\ \A k \in 1..Len(MutexCalls(f)) : f.cell >= MutexCalls(f)[k].ceiling

\* the step is the exit of a lock call made inside the closure of another one
InnerLockReturns == LockReturns /\ Len(MutexCalls(Top)) >= 2

\* the lock call around the innermost one
OuterLock(f) == MutexCalls(f)[Len(MutexCalls(f)) - 1]

\* C38: nested locks are well-bracketed: the cell of a context is never below
\* its base priority and, inside the closures of its lock calls, never below
\* any of their ceilings; the exit of an inner lock leaves the cell, BASEPRI
\* and PRIMASK exactly as they were inside the outer closure, the cell not
\* below the outer ceiling.
C38_NestedLocks ==
  /\ [](\A k \in 1..Len(stack) : CellCoversCeilings(stack[k]))
  /\ [][InnerLockReturns =>
          /\ TopNext.cell = InnerLock(Top).current
          /\ TopNext.cell = LockEnterCell(OuterLock(Top).mode, OuterLock(Top).current,
                                          OuterLock(Top).ceiling)
          /\ TopNext.cell >= OuterLock(Top).ceiling
          /\ basepri' = InnerLock(Top).pre_basepri
          /\ basepri' = LockEnterBasepri(OuterLock(Top).mode, OuterLock(Top).ceiling,
                                         OuterLock(Top).pre_basepri)
          /\ primask' = InnerLock(Top).pre_primask
          /\ primask' = LockEnterPrimask(OuterLock(Top).mode, OuterLock(Top).pre_primask)]_vars

\* C38 witness: idle has left the lock on S, which had raised BASEPRI to the
\* encoding of 3, and is back in the closure of the lock on R with the cell 2
\* and BASEPRI the encoding of 2
C38_Witness ==
  /\ app.name = "nested"
  /\ Len(stack) = 1 /\ Top.kind = "idle" /\ Top.pc = "body" /\ Top.ip = 4
  /\ Len(MutexCalls(Top)) = 1 /\ InnerLock(Top).name = "R"
  /\ Top.cell = 2 /\ basepri = logical2hw(2, NVIC_PRIO_BITS) /\ ~primask


\* C39: the ownership analysis does not depend on the order in which the
\* accesses are enumerated: whatever order the analysis took, every ordering
\* of the same accesses gives the same ownership map and the same needs_sync.
C39_OrderIndependent ==
  expansion.stage = "analyzed" =>
    \A sites \in Orderings(access_sites(app)) :
      /\ OwnershipsOf(AccessSeq(sites), EmptyMap) = analysis.ownerships
      /\ NeedsSyncOf(AccessSeq(sites), EmptyMap, app) = analysis.needs_sync

\* C39 witness: the read-only resource X is accessed twice at priority 1 and
\* once at priority 2; it is Shared with ceiling 2 and its type needs Sync
C39_Witness ==
  /\ expansion.stage = "analyzed"
  /\ app.name = "resources"
  /\ app.tasks["ta"].priority = 1 /\ app.tasks["tb"].priority = 1
  /\ app.interrupts["I"].priority = 2
  /\ {s[1] : s \in {x \in access_sites(app) : x[3] = "X"}} = {"ta", "tb", "I"}
  /\ analysis.ownerships["X"] = Shared(2)
  /\ analysis.needs_sync = {"T"}

=============================================================================
